---- MODULE Spec2Model ----
(***************************************************************************)
(* Verification model of the graph decomposition, A* planning and          *)
(* subgoal-option action counting code of optimal_options.                  *)
(*                                                                         *)
(* Vertices are indices 0 .. size_V-1; the data stored in vertex i is i.    *)
(* A graph is a record [V, adjacent, size_V, size_E] as in UndirectedGraph. *)
(***************************************************************************)
EXTENDS Integers, Sequences, FiniteSets, TLC

(* ------------------------------ bounds --------------------------------- *)
MaxV == 3
MaxPathLen == 3
MaxCalls == 2

(* ------------------------- generic helpers ----------------------------- *)
Min(S) == CHOOSE x \in S : \A y \in S : x <= y

RECURSIVE sorted(_)
sorted(S) == IF S = {} THEN <<>> ELSE <<Min(S)>> \o sorted(S \ {Min(S)})

RECURSIVE sum_len(_, _)
sum_len(adjacent, n) ==
    IF n = 0 THEN 0 ELSE Cardinality(adjacent[n - 1]) + sum_len(adjacent, n - 1)

Range(s) == {s[k] : k \in 1..Len(s)}

(* --------------------------- UndirectedGraph --------------------------- *)
RECURSIVE add_all(_, _, _)
add_all(adjacent, edges, k) ==
    IF k > Len(edges) THEN adjacent
    ELSE LET i == edges[k][1]
             j == edges[k][2]
             a1 == [adjacent EXCEPT ![i] = @ \cup {j}]
             a2 == [a1 EXCEPT ![j] = @ \cup {i}]
         IN add_all(a2, edges, k + 1)

UndirectedGraph(vertices, edges) ==
    LET n == Len(vertices)
        adjacent == add_all([v \in 0..(n - 1) |-> {}], edges, 1)
    IN [V |-> vertices, adjacent |-> adjacent,
        size_V |-> n, size_E |-> sum_len(adjacent, n)]

add_edge_one_way(g, i, j) ==
    IF ~(0 <= i /\ i < g.size_V /\ 0 <= j /\ j < g.size_V)
    THEN [g |-> g, added |-> 0, ok |-> FALSE]
    ELSE IF j \in g.adjacent[i] /\ i \in g.adjacent[j]
    THEN [g |-> g, added |-> 0, ok |-> TRUE]
    ELSE LET a1 == [g.adjacent EXCEPT ![i] = @ \cup {j}]
             edges_added == IF i = j THEN 1 ELSE 2
         IN [g |-> [g EXCEPT !.adjacent = a1, !.size_E = @ + edges_added],
             added |-> edges_added, ok |-> TRUE]

\* add_edge returns the graph after the call and the number of edges added;
\* ok = FALSE models a failed index assertion (the graph is left unchanged).
add_edge(g, i, j) ==
    IF ~(0 <= i /\ i < g.size_V /\ 0 <= j /\ j < g.size_V)
    THEN [g |-> g, added |-> 0, ok |-> FALSE]
    ELSE IF j \in g.adjacent[i] /\ i \in g.adjacent[j]
    THEN [g |-> g, added |-> 0, ok |-> TRUE]
    ELSE LET a1 == [g.adjacent EXCEPT ![i] = @ \cup {j}]
             a2 == [a1 EXCEPT ![j] = @ \cup {i}]
             edges_added == IF i = j THEN 1 ELSE 2
         IN [g |-> [g EXCEPT !.adjacent = a2, !.size_E = @ + edges_added],
             added |-> edges_added, ok |-> TRUE]

remove_edge_one_way(g, i, j) ==
    IF ~(0 <= i /\ i < g.size_V /\ 0 <= j /\ j < g.size_V)
    THEN [g |-> g, ok |-> FALSE]
    ELSE IF ~(i \in g.adjacent[j] /\ j \in g.adjacent[i])
    THEN [g |-> g, ok |-> FALSE]
    ELSE LET a1 == [g.adjacent EXCEPT ![i] = @ \ {j}]
             edges_removed == IF i = j THEN 1 ELSE 2
         IN [g |-> [g EXCEPT !.adjacent = a1, !.size_E = @ - edges_removed],
             ok |-> TRUE]

\* remove_edge: ok = FALSE models a failed assertion (graph unchanged) or the
\* KeyError of the second set.remove, raised when the first one has already
\* taken the element out (i = j): the first removal stays, size_E is not
\* lowered.
remove_edge(g, i, j) ==
    IF ~(0 <= i /\ i < g.size_V /\ 0 <= j /\ j < g.size_V)
    THEN [g |-> g, ok |-> FALSE]
    ELSE IF ~(i \in g.adjacent[j] /\ j \in g.adjacent[i])
    THEN [g |-> g, ok |-> FALSE]
    ELSE LET a1 == [g.adjacent EXCEPT ![i] = @ \ {j}]
             a2 == [a1 EXCEPT ![j] = @ \ {i}]
             edges_removed == IF i = j THEN 1 ELSE 2
         IN IF i \notin a1[j]
            THEN [g |-> [g EXCEPT !.adjacent = a1], ok |-> FALSE]
            ELSE [g |-> [g EXCEPT !.adjacent = a2, !.size_E = @ - edges_removed],
                  ok |-> TRUE]

\* get_edge_from_idx: <<-1, -1>> stands for the "We shouldn't be here" assertion.
RECURSIVE get_edge_scan(_, _, _, _)
get_edge_scan(g, edge_idx, current_vertex, edges_skipped) ==
    IF current_vertex >= g.size_V THEN <<-1, -1>>
    ELSE LET neighbors == g.adjacent[current_vertex]
             first_neighbor_idx == edges_skipped
             last_neighbor_idx == first_neighbor_idx + Cardinality(neighbors) - 1
             here == first_neighbor_idx <= edge_idx /\ edge_idx <= last_neighbor_idx
         IN IF neighbors = {}
            THEN get_edge_scan(g, edge_idx, current_vertex + 1, edges_skipped)
            ELSE IF ~here
            THEN get_edge_scan(g, edge_idx, current_vertex + 1,
                               edges_skipped + Cardinality(neighbors))
            ELSE LET neighbor_idx == edge_idx - edges_skipped
                 IN <<current_vertex, sorted(neighbors)[neighbor_idx + 1]>>

get_edge_from_idx_one_based(g, edge_idx) == get_edge_scan(g, edge_idx + 1, 0, 0)

get_edge_from_idx(g, edge_idx) == get_edge_scan(g, edge_idx, 0, 0)

(* ------------------------ connected components ------------------------- *)
\* Iterative depth-first search with an explicit stack (the last element of
\* the sequence is the top).  The labels do not depend on the order in which
\* a vertex's neighbours are pushed; they are pushed in ascending order.
RECURSIVE dfs_label(_, _, _, _)
dfs_label(g, labels, unexplored, component_num) ==
    IF unexplored = <<>> THEN labels
    ELSE LET u == unexplored[Len(unexplored)]
             rest == SubSeq(unexplored, 1, Len(unexplored) - 1)
         IN IF labels[u] = -1
            THEN dfs_label(g, [labels EXCEPT ![u] = component_num],
                           rest \o sorted(g.adjacent[u]), component_num)
            ELSE dfs_label(g, labels, rest, component_num)

RECURSIVE count_and_label(_, _, _, _)
count_and_label(g, labels, v, component_num) ==
    IF v >= g.size_V
    THEN [num |-> component_num + 1, labels |-> labels,
          ok |-> /\ \A u \in DOMAIN labels : labels[u] # -1
                 /\ \E u \in DOMAIN labels : labels[u] = component_num]
    ELSE IF labels[v] = -1
    THEN count_and_label(g, dfs_label(g, labels, <<v>>, component_num + 1),
                         v + 1, component_num + 1)
    ELSE count_and_label(g, labels, v + 1, component_num)

\* find_components: ok = FALSE models a failed assertion ("All vertices
\* should have a component label!", "Last component should be non-empty!").
find_components(g) ==
    count_and_label(g, [v \in 0..(g.size_V - 1) |-> -1], 0, -1)

(* -------------------------- graph_partition ---------------------------- *)
IndexOf(seq, x) == (CHOOSE k \in 1..Len(seq) : seq[k] = x) - 1

RECURSIVE component_edges(_, _, _)
component_edges(g, v_indices, k) ==
    IF k > Len(v_indices) THEN <<>>
    ELSE LET nbrs == sorted(g.adjacent[v_indices[k]])
         IN [m \in 1..Len(nbrs) |-> <<k - 1, nbrs[m]>>]
            \o component_edges(g, v_indices, k + 1)

RECURSIVE add_component_edges(_, _, _, _)
add_component_edges(component, v_indices, pairs, k) ==
    IF k > Len(pairs) THEN component
    ELSE add_component_edges(
            add_edge(component, pairs[k][1], IndexOf(v_indices, pairs[k][2])).g,
            v_indices, pairs, k + 1)

\* One component subgraph: ok = FALSE models the failed assertion
\* "Neighbors should be in the same component!".
component_subgraph(g, labels, c) ==
    LET v_indices == sorted({v \in 0..(g.size_V - 1) : labels[v] = c})
        vertices == [k \in 1..Len(v_indices) |-> g.V[v_indices[k] + 1]]
        pairs == component_edges(g, v_indices, 1)
        ok == \A k \in 1..Len(pairs) : pairs[k][2] \in Range(v_indices)
    IN [ok |-> ok,
        g |-> IF ok
              THEN add_component_edges(UndirectedGraph(vertices, <<>>),
                                       v_indices, pairs, 1)
              ELSE UndirectedGraph(vertices, <<>>)]

separate_components(g) ==
    LET found == find_components(g)
        subs == [c \in 1..found.num |-> component_subgraph(g, found.labels, c - 1)]
    IN [ok |-> \A c \in 1..found.num : subs[c].ok,
        components |-> [c \in 1..found.num |-> subs[c].g]]

(* ------------------------------ state ---------------------------------- *)
VARIABLES
    graph,        \* the input graph G (the state-space graph)
    pc,           \* position of the running procedure
    failure,      \* "none", or the assertion / exception that stopped the run
    n_req,        \* decompose: requested number of components n
    tree,         \* uniform_spanning_tree: the tree being built, then the forest
    in_tree,      \* uniform_spanning_tree: in_tree array
    next_v,       \* uniform_spanning_tree: next_v array (-1 = not initialized)
    remaining,    \* vertices of rng.permutation not yet iterated
    walk_i,       \* loop variable i
    walk_u,       \* loop variable u
    cuts_left,    \* decompose: edge removals still to do
    components,   \* decompose: the returned list of component subgraphs
    regions,      \* RegionBasedAgent.regions (a ConnectedComponents)
    region_entrances, \* RegionBasedAgent.region_entrances
    region_exits, \* RegionBasedAgent.region_exits
    options,      \* RegionBasedAgent.options: per region, a set of options
    path,         \* argument of the last possible_actions call
    possibilities,\* array returned by the last possible_actions call
    call_log,     \* per index of the last call: the locals of the iteration
    calls,        \* number of possible_actions calls made on the agent
    agent_failure,\* "none", or the assertion that stopped the last call
    active_seen,  \* history: <<region, subgoal, state>> active in some call
    pi_o_count,   \* history: times the option-level factor was multiplied in
    constrained_arrays, \* the arrays allocated by np.full for the options, in
                  \* allocation order: each the set of states flagged True
    option_ref,   \* <<region, subgoal, owner>> |-> the index in
                  \* constrained_arrays of that option's constrained array
    encoding,     \* array returned by encode_agent
    decoded,      \* agent returned by decode_agent
    codec_pc,     \* "none", "encoded", "decoded" or "failed"
    set_order,    \* the vertex indices in the order in which the interpreter
                  \* visits them when it iterates over a set
    edge_cost,    \* planner: cost of each edge of the transition graph
    h_table,      \* planner: h(state, goals) for the goals of the call
    s0,           \* a_star: initial state of the call
    goals,        \* planner.goals
    open_list,    \* planner.open_list
    closed_list,  \* planner.closed_list
    a_path,       \* a_star: the returned path
    astar_pc,     \* "idle", "search" (inside the while loop) or "returned"
    api_call,     \* the last UndirectedGraph call: its arguments and outcome
    added_sum,    \* sum of the values returned by add_edge (-1: not tracked)
    api_failures, \* number of UndirectedGraph calls that raised
    derived,      \* a graph derived from graph (NoGraph: none derived yet)
    derived_kind, \* "none", "tree", "connectivity_graph" or "_graph"
    shares_V      \* derived.V and graph.V are one list object

partVars == <<pc, failure, n_req, tree, in_tree, next_v, remaining,
              walk_i, walk_u, cuts_left, components>>

agentVars == <<regions, region_entrances, region_exits, options, path,
               possibilities, call_log, calls, agent_failure, active_seen,
               pi_o_count, constrained_arrays, option_ref>>

codecVars == <<encoding, decoded, codec_pc, set_order>>

astarVars == <<edge_cost, h_table, s0, goals, open_list, closed_list, a_path,
               astar_pc>>

derivedVars == <<derived, derived_kind, shares_V>>

apiVars == <<api_call, added_sum, api_failures, derivedVars>>

vars == <<graph, partVars, agentVars, codecVars, astarVars, apiVars>>

Vertices(g) == 0..(g.size_V - 1)

NoGraph == UndirectedGraph(<<>>, <<>>)

\* Candidate undirected edges (self-loops included) on n vertices.
Pairs(n) == {p \in (0..(n - 1)) \X (0..(n - 1)) : p[1] <= p[2]}

RECURSIVE SetToSeq(_)
SetToSeq(S) ==
    IF S = {} THEN <<>>
    ELSE LET x == CHOOSE y \in S : \A z \in S : y[1] < z[1] \/ (y[1] = z[1] /\ y[2] <= z[2])
         IN <<x>> \o SetToSeq(S \ {x})

\* Input graphs: any set of edges between distinct vertices, without
\* self-loops or with a self-loop on every vertex (the graphs of the tests
\* are built from all (i, j) pairs, self-loops included).
EdgeSets(n) ==
    {E \in SUBSET Pairs(n) :
        LET loops == {p \in E : p[1] = p[2]}
        IN loops = {} \/ Cardinality(loops) = n}

GraphsOn(n) ==
    {UndirectedGraph([k \in 1..n |-> k - 1], SetToSeq(E)) : E \in EdgeSets(n)}

ConnectedGraphs ==
    {g \in UNION {GraphsOn(n) : n \in 1..MaxV} : find_components(g).num = 1}

NoRegions == [num_components |-> 0, labels |-> <<>>, pruned |-> NoGraph]

NoAgent ==
    /\ regions = NoRegions
    /\ region_entrances = <<>>
    /\ region_exits = <<>>
    /\ options = <<>>
    /\ path = <<>>
    /\ possibilities = <<>>
    /\ call_log = <<>>
    /\ calls = 0
    /\ agent_failure = "none"
    /\ active_seen = {}
    /\ pi_o_count = <<>>
    /\ constrained_arrays = <<>>
    /\ option_ref = <<>>

NoDecoded ==
    [regions |-> NoRegions, region_entrances |-> <<>>, region_exits |-> <<>>,
     options |-> <<>>]

\* No encoding made; sets are iterated in ascending order.
NoCodec ==
    /\ encoding = <<>>
    /\ decoded = NoDecoded
    /\ codec_pc = "none"
    /\ set_order = [k \in 1..graph.size_V |-> k - 1]

\* No call recorded.
NoCall == [op |-> "none", on |-> "none", i |-> -1, j |-> -1, ret |-> 0, edge |-> <<-1, -1>>,
           value |-> FALSE, ok |-> TRUE, graph |-> NoGraph, labels |-> <<>>,
           path |-> <<>>, subgoals |-> <<>>, behaviors |-> <<>>, results |-> <<>>,
           encoding |-> <<>>]

NoDerived ==
    /\ derived = NoGraph
    /\ derived_kind = "none"
    /\ shares_V = FALSE

NoApi ==
    /\ api_call = NoCall
    /\ added_sum = -1
    /\ api_failures = 0
    /\ NoDerived

\* AStarPlanner.__init__: empty lists and goal set; no call made yet.
NoSearch ==
    /\ h_table = <<>>
    /\ s0 = -1
    /\ goals = {}
    /\ open_list = <<>>
    /\ closed_list = <<>>
    /\ a_path = <<>>
    /\ astar_pc = "idle"

Init ==
    /\ graph \in ConnectedGraphs
    /\ pc = "idle"
    /\ failure = "none"
    /\ n_req = 0
    /\ tree = NoGraph
    /\ in_tree = <<>>
    /\ next_v = <<>>
    /\ remaining = {}
    /\ walk_i = -1
    /\ walk_u = -1
    /\ cuts_left = 0
    /\ components = <<>>
    /\ NoAgent
    /\ NoCodec
    /\ edge_cost = <<>>
    /\ NoSearch
    /\ NoApi

(* ----------------- decompose / uniform_spanning_tree ------------------- *)
\* decompose(n, graph, rng): the range assertion, then the start of
\* uniform_spanning_tree (empty tree, sampled root marked in the tree).
DecomposeCall(n, root) ==
    /\ pc = "idle"
    /\ n_req' = n
    /\ IF ~(1 <= n /\ n <= graph.size_V)
       THEN /\ pc' = "failed"
            /\ failure' = "invalid number of components"
            /\ UNCHANGED <<tree, in_tree, next_v, remaining>>
       ELSE /\ pc' = "perm"
            /\ failure' = "none"
            /\ tree' = UndirectedGraph(graph.V, <<>>)
            /\ in_tree' = [v \in Vertices(graph) |-> v = root]
            /\ next_v' = [v \in Vertices(graph) |-> -1]
            /\ remaining' = Vertices(graph)
    /\ UNCHANGED <<agentVars, codecVars, astarVars, apiVars, graph, walk_i, walk_u, cuts_left, components>>

\* for i in rng.permutation(size_V): take the next vertex of the permutation;
\* when the permutation is exhausted the loop ends and the final assertion runs.
PermNext ==
    /\ pc = "perm"
    /\ IF remaining = {}
       THEN /\ IF \A v \in Vertices(graph) : in_tree[v]
               THEN pc' = "cut" /\ failure' = "none" /\ cuts_left' = n_req - 1
               ELSE pc' = "failed" /\ failure' = "not all in tree"
                    /\ UNCHANGED cuts_left
            /\ UNCHANGED <<remaining, walk_i, walk_u>>
       ELSE /\ \E i \in remaining :
                 /\ remaining' = remaining \ {i}
                 /\ walk_i' = i
                 /\ walk_u' = i
            /\ pc' = "walk"
            /\ UNCHANGED <<failure, cuts_left>>
    /\ UNCHANGED <<agentVars, codecVars, astarVars, apiVars, graph, n_req, tree, in_tree, next_v, components>>

WalkStep_first_draw_kept ==
    /\ pc = "walk"
    /\ IF ~in_tree[walk_u]
       THEN /\ \E neighbor \in graph.adjacent[walk_u] :
                 \E kept \in {IF next_v[walk_u] = -1 THEN neighbor
                               ELSE next_v[walk_u]} :
                    /\ next_v' = [next_v EXCEPT ![walk_u] = kept]
                    /\ walk_u' = kept
            /\ UNCHANGED pc
       ELSE /\ walk_u' = walk_i
            /\ pc' = "retrace"
            /\ UNCHANGED next_v
    /\ UNCHANGED <<agentVars, codecVars, astarVars, apiVars, graph, failure, n_req, tree, in_tree, remaining, walk_i,
                   cuts_left, components>>

\* while not in_tree[u]: next_v[u] = random_neighbor(u); u = next_v[u]
WalkStep ==
    /\ pc = "walk"
    /\ IF ~in_tree[walk_u]
       THEN /\ \E neighbor \in graph.adjacent[walk_u] :
                 /\ next_v' = [next_v EXCEPT ![walk_u] = neighbor]
                 /\ walk_u' = neighbor
            /\ UNCHANGED pc
       ELSE /\ walk_u' = walk_i
            /\ pc' = "retrace"
            /\ UNCHANGED next_v
    /\ UNCHANGED <<agentVars, codecVars, astarVars, apiVars, graph, failure, n_req, tree, in_tree, remaining, walk_i,
                   cuts_left, components>>

\* while not in_tree[u]: add (u, next_v[u]) to the tree; then the early exit.
RetraceStep ==
    /\ pc = "retrace"
    /\ IF ~in_tree[walk_u]
       THEN LET r == add_edge(tree, walk_u, next_v[walk_u])
            IN IF r.ok /\ r.added = 2
               THEN /\ tree' = r.g
                    /\ in_tree' = [in_tree EXCEPT ![walk_u] = TRUE]
                    /\ walk_u' = next_v[walk_u]
                    /\ UNCHANGED <<pc, failure, cuts_left>>
               ELSE /\ tree' = r.g
                    /\ pc' = "failed"
                    /\ failure' = "edges_added != 2"
                    /\ UNCHANGED <<in_tree, walk_u, cuts_left>>
       ELSE /\ IF \A v \in Vertices(graph) : in_tree[v]
               THEN pc' = "cut" /\ cuts_left' = n_req - 1
               ELSE pc' = "perm" /\ UNCHANGED cuts_left
            /\ UNCHANGED <<tree, in_tree, walk_u, failure>>
    /\ UNCHANGED <<agentVars, codecVars, astarVars, apiVars, graph, n_req, next_v, remaining, walk_i, components>>

\* edge = spanning_tree.sample_edge(rng); spanning_tree.remove_edge(edge)
CutStep ==
    /\ pc = "cut"
    /\ cuts_left > 0
    /\ IF tree.size_E <= 0
       THEN /\ pc' = "failed"
            /\ failure' = "sample_edge on empty graph"
            /\ UNCHANGED <<tree, cuts_left>>
       ELSE \E edge_idx \in 0..(tree.size_E - 1) :
              LET edge == get_edge_from_idx(tree, edge_idx)
                  r == remove_edge(tree, edge[1], edge[2])
              IN IF r.ok
                 THEN /\ tree' = r.g
                      /\ cuts_left' = cuts_left - 1
                      /\ UNCHANGED <<pc, failure>>
                 ELSE /\ pc' = "failed"
                      /\ failure' = "edge not in graph"
                      /\ UNCHANGED <<tree, cuts_left>>
    /\ UNCHANGED <<agentVars, codecVars, astarVars, apiVars, graph, n_req, in_tree, next_v, remaining, walk_i, walk_u,
                   components>>

\* connected_components = separate_components(spanning_tree); sanity check.
Separate ==
    /\ pc = "cut"
    /\ cuts_left = 0
    /\ LET r == separate_components(tree)
       IN /\ components' = r.components
          /\ IF ~r.ok
             THEN pc' = "failed" /\ failure' = "neighbors not in same component"
             ELSE IF Len(r.components) # n_req
             THEN pc' = "failed" /\ failure' = "decompose produced wrong count"
             ELSE pc' = "done" /\ UNCHANGED failure
    /\ UNCHANGED <<agentVars, codecVars, astarVars, apiVars, graph, n_req, tree, in_tree, next_v, remaining, walk_i,
                   walk_u, cuts_left>>

Next ==
    \/ \E n \in 0..(MaxV + 1), root \in Vertices(graph) : DecomposeCall(n, root)
    \/ PermNext
    \/ WalkStep
    \/ RetraceStep
    \/ CutStep
    \/ Separate

Spec == Init /\ [][Next]_vars

\* uniform_spanning_tree alone: decompose with n = 1 removes no edge.
\* The neighbour drawn by random_neighbor is v: the walk moves to v.
WalkTo(v) == WalkStep /\ ~in_tree[walk_u] /\ walk_u' = v

\* The connected graphs; those on MaxV vertices with a self-loop on every
\* vertex only (a walk on them can also make every move of a walk on the
\* graph without the loops).
InitTree ==
    /\ Init
    /\ graph.size_V = MaxV => 0 \in graph.adjacent[0]

NextTree ==
    \/ \E root \in Vertices(graph) : DecomposeCall(1, root)
    \/ PermNext
    \/ WalkStep
    \/ RetraceStep
    \/ Separate

\* The loops run on; rng draws fairly: a vertex that can be drawn as the
\* next neighbour again and again is drawn at some time.
SpecTreeFair ==
    /\ InitTree
    /\ [][NextTree]_vars
    /\ WF_vars(PermNext)
    /\ WF_vars(WalkStep)
    /\ WF_vars(RetraceStep)
    /\ \A v \in 0..(MaxV - 1) : SF_vars(WalkTo(v))

(* ----------------- ConnectedComponents / region topology --------------- *)
\* reset_edges: a copy of the given graph without the edges that cross a
\* region boundary; the copy's size_E is the one of the given graph.
reset_edges_one_way(labels, g) ==
    [g EXCEPT !.adjacent =
        [v_idx \in Vertices(g) |->
            {n_idx \in g.adjacent[v_idx] :
                labels[n_idx] = labels[v_idx] \/ n_idx < v_idx}]]

reset_edges(labels, g) ==
    [g EXCEPT !.adjacent =
        [v_idx \in Vertices(g) |->
            {n_idx \in g.adjacent[v_idx] : labels[n_idx] = labels[v_idx]}]]

ConnectedComponents_unpruned(cg, state_space) ==
    LET found == find_components(cg)
    IN [num_components |-> found.num,
        labels |-> found.labels,
        pruned |-> state_space]

ConnectedComponents(cg, state_space) ==
    LET found == find_components(cg)
    IN [num_components |-> found.num,
        labels |-> found.labels,
        pruned |-> reset_edges(found.labels, state_space)]

\* The attribute regions.graph read by entrance_states, exit_states and
\* possible_actions: the caller's original (unpruned) state-space graph.
regions_graph(rg, state_space) == state_space

get_vertex_indices(rg, component_id) ==
    {v \in Vertices(rg.pruned) : rg.labels[v] = component_id}

entrance_states_pruned(rg, state_space, region_id) ==
    {v_idx \in get_vertex_indices(rg, region_id) :
        LET neighbors == rg.pruned.adjacent[v_idx]
            entrance_regions == {n \in neighbors : rg.labels[n] # region_id}
        IN entrance_regions # {}}

entrance_states(rg, state_space, region_id) ==
    {v_idx \in get_vertex_indices(rg, region_id) :
        LET neighbors == regions_graph(rg, state_space).adjacent[v_idx]
            entrance_regions == {n \in neighbors : rg.labels[n] # region_id}
        IN entrance_regions # {}}

exit_states_pruned(rg, state_space, region_id) ==
    LET in_region == get_vertex_indices(rg, region_id)
        outside_region == {v \in Vertices(rg.pruned) : v \notin in_region}
    IN {v_idx \in outside_region :
          \E n \in rg.pruned.adjacent[v_idx] : rg.labels[n] = region_id}

exit_states(rg, state_space, region_id) ==
    LET in_region == get_vertex_indices(rg, region_id)
        outside_region ==
            {v \in Vertices(regions_graph(rg, state_space)) : v \notin in_region}
    IN {v_idx \in outside_region :
          \E n \in regions_graph(rg, state_space).adjacent[v_idx] :
              rg.labels[n] = region_id}

(* --------------------------- RegionBasedAgent -------------------------- *)
\* A RegionSubgoalOption; constrained is the set of states whose flag is True.
RegionSubgoalOption(entrances, exits, subgoal, num_states) ==
    [entrances |-> entrances, exits |-> exits, subgoal |-> subgoal,
     constrained |-> {}]

RegionIds(rg) == 0..(rg.num_components - 1)

agent_entrances(rg, state_space) ==
    [r_id \in RegionIds(rg) |-> entrance_states(rg, state_space, r_id)]

agent_exits(rg, state_space) ==
    [r_id \in RegionIds(rg) |-> exit_states(rg, state_space, r_id)]

agent_options_per_entrance(rg, state_space) ==
    [r_id \in RegionIds(rg) |->
        LET entrances == entrance_states(rg, state_space, r_id)
            exits == exit_states(rg, state_space, r_id)
        IN {RegionSubgoalOption(entrances, exits, e, state_space.size_V) :
               e \in entrances}]

agent_options(rg, state_space) ==
    [r_id \in RegionIds(rg) |->
        LET entrances == entrance_states(rg, state_space, r_id)
            exits == exit_states(rg, state_space, r_id)
        IN {RegionSubgoalOption(entrances, exits, e, state_space.size_V) :
               e \in exits}]

\* np.full((num_states,), False): a new array object, the next entry of
\* constrained_arrays.
np_full_cached(arrays) == 1

np_full(arrays) == Len(arrays) + 1

\* The options of an agent (owner: "agent" or "decoded"), as keys.
OptionRefs(opts, owner) ==
    UNION {{<<r_id, o.subgoal, owner>> : o \in opts[r_id]} : r_id \in DOMAIN opts}

\* The constructor calls RegionSubgoalOption(...) of an agent: one array
\* allocated per option, referenced by that option only.
RECURSIVE allocate(_, _, _)
allocate(keys, arrays, refs) ==
    IF keys = <<>> THEN [arrays |-> arrays, refs |-> refs]
    ELSE allocate(Tail(keys), Append(arrays, {}),
                  (Head(keys) :> np_full(arrays)) @@ refs)

\* relevant_option.constrained[curr_state_v] = True at the indices of a call
\* where constrain_pi_o was set: a write to the array the option refers to.
RECURSIVE mark_constrained(_, _, _, _, _)
mark_constrained(arrays, refs, owner, log, idx) ==
    IF idx > Len(log) THEN arrays
    ELSE IF log[idx].constrain_pi_o
    THEN mark_constrained(
             [arrays EXCEPT ![refs[<<log[idx].region, log[idx].subgoal, owner>>]] =
                 @ \cup {log[idx].state}],
             refs, owner, log, idx + 1)
    ELSE mark_constrained(arrays, refs, owner, log, idx + 1)

\* find_subgoals: indices are 1-based here; -1 means "no subgoal".
RECURSIVE find_subgoals_from(_, _, _, _)
find_subgoals_from(labels, p, curr_idx, subgoals) ==
    IF curr_idx > Len(p) THEN subgoals
    ELSE LET curr_region == labels[p[curr_idx]]
             future == {f \in (curr_idx + 1)..Len(p) : labels[p[f]] # curr_region}
         IN IF future = {} THEN subgoals
            ELSE LET future_idx == Min(future)
                 IN find_subgoals_from(labels, p, future_idx,
                        [k \in 1..Len(p) |->
                            IF curr_idx <= k /\ k < future_idx
                            THEN p[future_idx] ELSE subgoals[k]])

find_subgoals_next_state(labels, p) ==
    [k \in 1..Len(p) |-> IF k = Len(p) THEN -1 ELSE p[k + 1]]

\* find_subgoals on a non-empty path (the caller checks len(path) >= 1).
find_subgoals(labels, p) ==
    find_subgoals_from(labels, p, 1, [k \in 1..Len(p) |-> -1])

\* The options the task-level policy may select at curr_state_v.
available_options_everywhere(entrances, opts, first_state, curr_state_v, curr_region) ==
    Cardinality(opts[curr_region])

available_options(entrances, opts, first_state, curr_state_v, curr_region) ==
    IF first_state \/ curr_state_v \in entrances[curr_region]
    THEN Cardinality(opts[curr_region])
    ELSE 0

\* One iteration of the loop of possible_actions, at (1-based) index idx.
\* st = [possibilities, options, log, ok]; log[idx] records the locals
\* constrain_pi_t, constrain_pi_o, curr_region, curr_subgoal, curr_state_v.
possible_actions_at_no_flag(rg, state_space, entrances, p, subgoals, idx, st) ==
    LET curr_state_v == p[idx]
        curr_subgoal == subgoals[idx]
        curr_region == rg.labels[curr_state_v]
        first_state == idx = 1
        no_subgoal == curr_subgoal = -1
        option_just_terminated ==
            IF first_state THEN FALSE ELSE curr_subgoal # subgoals[idx - 1]
        constrain_pi_t == first_state \/ no_subgoal \/ option_just_terminated
        o_sg == IF no_subgoal THEN {}
                ELSE {o \in st.options[curr_region] : o.subgoal = curr_subgoal}
        constrain_pi_o == ~no_subgoal /\ Cardinality(o_sg) = 1
        degree_v == Cardinality(regions_graph(rg, state_space).adjacent[curr_state_v])
        task_factor ==
            IF constrain_pi_t
            THEN degree_v + available_options(entrances, st.options, first_state,
                                              curr_state_v, curr_region)
            ELSE 1
        option_factor == IF constrain_pi_o THEN degree_v ELSE 1
    IN IF ~no_subgoal /\ Cardinality(o_sg) # 1
       THEN [st EXCEPT !.ok = FALSE]
       ELSE [possibilities |-> [st.possibilities EXCEPT ![idx] = @ * task_factor * option_factor],
             options |-> st.options,
             log |-> [st.log EXCEPT ![idx] =
                        [constrain_pi_t |-> constrain_pi_t,
                         constrain_pi_o |-> constrain_pi_o,
                         region |-> curr_region,
                         subgoal |-> curr_subgoal,
                         state |-> curr_state_v]],
             ok |-> TRUE]

possible_actions_at_option_only(rg, state_space, entrances, p, subgoals, idx, st) ==
    LET curr_state_v == p[idx]
        curr_subgoal == subgoals[idx]
        curr_region == rg.labels[curr_state_v]
        first_state == idx = 1
        no_subgoal == curr_subgoal = -1
        option_just_terminated ==
            IF first_state THEN FALSE ELSE curr_subgoal # subgoals[idx - 1]
        constrain_pi_t == first_state \/ no_subgoal \/ option_just_terminated
        o_sg == IF no_subgoal THEN {}
                ELSE {o \in st.options[curr_region] : o.subgoal = curr_subgoal}
        relevant_option == CHOOSE o \in o_sg : TRUE
        constrain_pi_o ==
            ~no_subgoal /\ Cardinality(o_sg) = 1
                /\ curr_state_v \notin relevant_option.constrained
        marked == [relevant_option EXCEPT !.constrained = @ \cup {curr_state_v}]
        degree_v == Cardinality(regions_graph(rg, state_space).adjacent[curr_state_v])
        task_factor ==
            IF constrain_pi_t /\ ~constrain_pi_o
            THEN degree_v + available_options(entrances, st.options, first_state,
                                              curr_state_v, curr_region)
            ELSE 1
        option_factor == IF constrain_pi_o THEN degree_v ELSE 1
    IN IF ~no_subgoal /\ Cardinality(o_sg) # 1
       THEN [st EXCEPT !.ok = FALSE]
       ELSE [possibilities |-> [st.possibilities EXCEPT ![idx] = @ * task_factor * option_factor],
             options |-> IF constrain_pi_o
                         THEN [st.options EXCEPT ![curr_region] =
                                  (@ \ {relevant_option}) \cup {marked}]
                         ELSE st.options,
             log |-> [st.log EXCEPT ![idx] =
                        [constrain_pi_t |-> constrain_pi_t,
                         constrain_pi_o |-> constrain_pi_o,
                         region |-> curr_region,
                         subgoal |-> curr_subgoal,
                         state |-> curr_state_v]],
             ok |-> TRUE]

possible_actions_at(rg, state_space, entrances, p, subgoals, idx, st) ==
    LET curr_state_v == p[idx]
        curr_subgoal == subgoals[idx]
        curr_region == rg.labels[curr_state_v]
        first_state == idx = 1
        no_subgoal == curr_subgoal = -1
        option_just_terminated ==
            IF first_state THEN FALSE ELSE curr_subgoal # subgoals[idx - 1]
        constrain_pi_t == first_state \/ no_subgoal \/ option_just_terminated
        o_sg == IF no_subgoal THEN {}
                ELSE {o \in st.options[curr_region] : o.subgoal = curr_subgoal}
        relevant_option == CHOOSE o \in o_sg : TRUE
        constrain_pi_o ==
            ~no_subgoal /\ Cardinality(o_sg) = 1
                /\ curr_state_v \notin relevant_option.constrained
        marked == [relevant_option EXCEPT !.constrained = @ \cup {curr_state_v}]
        degree_v == Cardinality(regions_graph(rg, state_space).adjacent[curr_state_v])
        task_factor ==
            IF constrain_pi_t
            THEN degree_v + available_options(entrances, st.options, first_state,
                                              curr_state_v, curr_region)
            ELSE 1
        option_factor == IF constrain_pi_o THEN degree_v ELSE 1
    IN IF ~no_subgoal /\ Cardinality(o_sg) # 1
       THEN [st EXCEPT !.ok = FALSE]
       ELSE [possibilities |-> [st.possibilities EXCEPT ![idx] = @ * task_factor * option_factor],
             options |-> IF constrain_pi_o
                         THEN [st.options EXCEPT ![curr_region] =
                                  (@ \ {relevant_option}) \cup {marked}]
                         ELSE st.options,
             log |-> [st.log EXCEPT ![idx] =
                        [constrain_pi_t |-> constrain_pi_t,
                         constrain_pi_o |-> constrain_pi_o,
                         region |-> curr_region,
                         subgoal |-> curr_subgoal,
                         state |-> curr_state_v]],
             ok |-> TRUE]

NoLog ==
    [constrain_pi_t |-> FALSE, constrain_pi_o |-> FALSE, region |-> -1,
     subgoal |-> -1, state |-> -1]

RECURSIVE possible_actions_loop(_, _, _, _, _, _, _)
possible_actions_loop(rg, state_space, entrances, p, subgoals, idx, st) ==
    IF idx > Len(p) - 1 \/ ~st.ok THEN st
    ELSE possible_actions_loop(rg, state_space, entrances, p, subgoals, idx + 1,
            possible_actions_at(rg, state_space, entrances, p, subgoals, idx, st))

possible_actions_zeros(rg, state_space, entrances, opts, p) ==
    possible_actions_loop(rg, state_space, entrances, p,
        find_subgoals(rg.labels, p), 1,
        [possibilities |-> [k \in 1..(Len(p) - 1) |-> 0],
         options |-> opts,
         log |-> [k \in 1..(Len(p) - 1) |-> NoLog],
         ok |-> TRUE])

possible_actions(rg, state_space, entrances, opts, p) ==
    possible_actions_loop(rg, state_space, entrances, p,
        find_subgoals(rg.labels, p), 1,
        [possibilities |-> [k \in 1..(Len(p) - 1) |-> 1],
         options |-> opts,
         log |-> [k \in 1..(Len(p) - 1) |-> NoLog],
         ok |-> TRUE])

(* ------------------------- agent specification ------------------------- *)
\* Connectivity graphs on the vertices of g: any set of edges between
\* distinct vertices (ConnectedComponents takes any graph on the vertices).
ConnectivityGraphs(g) ==
    {UndirectedGraph(g.V, SetToSeq(E)) :
        E \in SUBSET {p \in Pairs(g.size_V) : p[1] # p[2]}}

\* Paths: sequences of at most MaxPathLen vertices in which consecutive
\* vertices are adjacent in the state-space graph.
RECURSIVE Walks(_, _)
Walks(g, len) ==
    IF len = 0 THEN {<<>>}
    ELSE IF len = 1 THEN {<<v>> : v \in Vertices(g)}
    ELSE UNION {{Append(w, v) : v \in g.adjacent[w[len - 1]]} :
                   w \in Walks(g, len - 1)}

PathsUpTo(g, len) == UNION {Walks(g, k) : k \in 0..len}

IdlePartition ==
    /\ pc = "idle"
    /\ failure = "none"
    /\ n_req = 0
    /\ tree = NoGraph
    /\ in_tree = <<>>
    /\ next_v = <<>>
    /\ remaining = {}
    /\ walk_i = -1
    /\ walk_u = -1
    /\ cuts_left = 0
    /\ components = <<>>

\* State-space graphs of the agent specifications: two chains (as in
\* test_is_connected_linear), a cycle, and a complete graph with self-loops
\* built from all (i, j) pairs (as in test_is_connected_fully_connected).
AgentGraphs ==
    {UndirectedGraph(<<0, 1, 2>>, <<<<0, 1>>, <<1, 2>>>>),
     UndirectedGraph(<<0, 1, 2, 3>>, <<<<0, 1>>, <<1, 2>>, <<2, 3>>>>),
     UndirectedGraph(<<0, 1, 2>>, <<<<0, 1>>, <<1, 2>>, <<0, 2>>>>),
     UndirectedGraph(<<0, 1>>, <<<<0, 0>>, <<0, 1>>, <<1, 0>>, <<1, 1>>>>)}

InitAgent ==
    /\ graph \in AgentGraphs
    /\ IdlePartition
    /\ NoAgent
    /\ NoCodec
    /\ edge_cost = <<>>
    /\ NoSearch
    /\ NoApi

\* The (option, state) pairs of an agent: <<region, subgoal, state>> with
\* the subgoal an exit of the region and the state a vertex of the region.
OptionStates(rg, state_space) ==
    UNION {{<<r_id, e, v>> : e \in exit_states(rg, state_space, r_id),
                             v \in get_vertex_indices(rg, r_id)} :
              r_id \in RegionIds(rg)}

\* RegionBasedAgent(graph, rg)
RegionBasedAgent(rg) ==
    /\ regions' = rg
    /\ region_entrances' = agent_entrances(rg, graph)
    /\ region_exits' = agent_exits(rg, graph)
    /\ options' = agent_options(rg, graph)
    /\ pi_o_count' = [t \in OptionStates(rg, graph) |-> 0]
    /\ \E heap \in {allocate(SetToSeq(OptionRefs(agent_options(rg, graph), "agent")),
                              constrained_arrays, option_ref)} :
          /\ constrained_arrays' = heap.arrays
          /\ option_ref' = heap.refs
    /\ UNCHANGED <<graph, partVars, codecVars, astarVars, apiVars, path, possibilities, call_log, calls,
                   agent_failure, active_seen>>

\* regions = ConnectedComponents(cg, graph); RegionBasedAgent(graph, regions)
BuildAgent(cg) ==
    /\ regions = NoRegions
    /\ \E rg \in {ConnectedComponents(cg, graph)} : RegionBasedAgent(rg)

\* agent.possible_actions(p)
PossibleActions(p) ==
    /\ regions # NoRegions
    /\ calls < MaxCalls
    /\ calls' = calls + 1
    /\ path' = p
    /\ IF Len(p) < 1
       THEN /\ agent_failure' = "empty path"
            /\ UNCHANGED <<options, possibilities, call_log, active_seen,
                           pi_o_count, constrained_arrays>>
       ELSE \E r \in {possible_actions(regions, graph, region_entrances, options, p)} :
            LET triple(e) == <<e.region, e.subgoal, e.state>>
            IN /\ options' = r.options
               /\ constrained_arrays' =
                     mark_constrained(constrained_arrays, option_ref, "agent", r.log, 1)
               /\ call_log' = r.log
               /\ active_seen' = active_seen \cup
                     {triple(r.log[k]) : k \in {i \in 1..Len(r.log) : r.log[i].subgoal # -1}}
               /\ pi_o_count' =
                     [t \in DOMAIN pi_o_count |->
                        pi_o_count[t] + Cardinality({k \in 1..Len(r.log) :
                            r.log[k].constrain_pi_o /\ triple(r.log[k]) = t})]
               /\ IF r.ok
                  THEN /\ possibilities' = r.possibilities
                       /\ agent_failure' = "none"
                  ELSE /\ agent_failure' = "no unique subgoal option"
                       /\ UNCHANGED possibilities
    /\ api_call' = [NoCall EXCEPT !.op = "possible_actions", !.on = "agent"]
    /\ UNCHANGED <<graph, partVars, codecVars, astarVars, added_sum, api_failures,
                   derivedVars, regions, region_entrances, region_exits,
                   option_ref>>

NextAgent ==
    \/ regions = NoRegions /\ \E cg \in ConnectivityGraphs(graph) : BuildAgent(cg)
    \/ calls < MaxCalls /\ \E p \in PathsUpTo(graph, MaxPathLen) : PossibleActions(p)

SpecAgent == InitAgent /\ [][NextAgent]_vars

(* -------------------------- log_model_evidence ------------------------- *)
\* np.sum(np.log(possible_actions)) is the logarithm of the product of the
\* entries: the product is kept in place of the floating-point sum.
RECURSIVE np_prod(_, _)
np_prod(xs, k) == IF k = 0 THEN 1 ELSE xs[k] * np_prod(xs, k - 1)

\* The loop of log_model_evidence from behaviors[k] on.
\* st = [product, options, results, logs, ok]: running_sum = -log(product);
\* results and logs keep each call's array and locals.
RECURSIVE log_model_evidence_loop(_, _, _, _, _, _)
log_model_evidence_loop(rg, state_space, entrances, behaviors, k, st) ==
    IF k > Len(behaviors) \/ ~st.ok THEN st
    ELSE IF Len(behaviors[k]) < 1 THEN [st EXCEPT !.ok = FALSE]
    ELSE LET r == possible_actions(rg, state_space, entrances, st.options,
                                   behaviors[k])
         IN log_model_evidence_loop(rg, state_space, entrances, behaviors, k + 1,
                [product |-> IF r.ok
                             THEN st.product * np_prod(r.possibilities,
                                                       Len(r.possibilities))
                             ELSE st.product,
                 options |-> r.options,
                 results |-> Append(st.results, r.possibilities),
                 logs |-> Append(st.logs, r.log),
                 ok |-> r.ok])

log_model_evidence(rg, state_space, entrances, opts, behaviors) ==
    log_model_evidence_loop(rg, state_space, entrances, behaviors, 1,
        [product |-> 1, options |-> opts, results |-> <<>>, logs |-> <<>>,
         ok |-> TRUE])

\* The flags written by the calls whose locals are logs[k], logs[k + 1], ...
RECURSIVE mark_all(_, _, _, _, _)
mark_all(arrays, refs, owner, logs, k) ==
    IF k > Len(logs) THEN arrays
    ELSE mark_all(mark_constrained(arrays, refs, owner, logs[k], 1), refs, owner,
                  logs, k + 1)

\* Datasets: lists of at most len non-empty paths of the graph.
RECURSIVE Behaviors(_, _)
Behaviors(g, len) ==
    IF len = 0 THEN {<<>>}
    ELSE LET shorter == Behaviors(g, len - 1)
         IN shorter \cup
            UNION {{Append(bs, p) : p \in PathsUpTo(g, MaxPathLen) \ {<<>>}} :
                      bs \in {x \in shorter : Len(x) = len - 1}}

\* The smaller two of the agent graphs.
EvidenceGraphs == {g \in AgentGraphs : g.size_E <= 4}

InitEvidence == InitAgent /\ graph \in EvidenceGraphs

\* log_model_evidence(agent, behaviors) on a freshly built agent.
LogModelEvidence(behaviors) ==
    /\ regions # NoRegions
    /\ calls = 0
    /\ \E r \in {log_model_evidence(regions, graph, region_entrances, options,
                                     behaviors)} :
          LET triple(e) == <<e.region, e.subgoal, e.state>>
              entries == {<<k, i>> \in (1..Len(r.logs)) \X (1..MaxPathLen) :
                             i <= Len(r.logs[k])}
          IN /\ calls' = Len(r.logs)
             /\ options' = r.options
             /\ constrained_arrays' =
                   mark_all(constrained_arrays, option_ref, "agent", r.logs, 1)
             /\ active_seen' = {triple(r.logs[e[1]][e[2]]) :
                                   e \in {x \in entries :
                                             r.logs[x[1]][x[2]].subgoal # -1}}
             /\ pi_o_count' =
                   [t \in DOMAIN pi_o_count |->
                      Cardinality({e \in entries :
                          /\ r.logs[e[1]][e[2]].constrain_pi_o
                          /\ triple(r.logs[e[1]][e[2]]) = t})]
             /\ IF r.logs = <<>>
                THEN UNCHANGED <<path, possibilities, call_log>>
                ELSE /\ path' = behaviors[Len(r.logs)]
                     /\ possibilities' = r.results[Len(r.logs)]
                     /\ call_log' = r.logs[Len(r.logs)]
             /\ agent_failure' = IF r.ok THEN "none" ELSE "no unique subgoal option"
             /\ api_call' = [NoCall EXCEPT
                                !.op = "log_model_evidence", !.on = "agent",
                                !.ret = r.product, !.behaviors = behaviors,
                                !.results = r.results, !.ok = r.ok]
    /\ UNCHANGED <<graph, partVars, codecVars, astarVars, added_sum, api_failures,
                   derivedVars, regions, region_entrances, region_exits,
                   option_ref>>

NextEvidence ==
    \/ regions = NoRegions /\ \E cg \in ConnectivityGraphs(graph) : BuildAgent(cg)
    \/ /\ regions # NoRegions
       /\ calls = 0
       /\ \E behaviors \in Behaviors(graph, MaxCalls) : LogModelEvidence(behaviors)

SpecEvidence == InitEvidence /\ [][NextEvidence]_vars

(* ------------------------- find_subgoals calls ------------------------- *)
\* Sequences of at most len vertex indices of g (find_subgoals reads only
\* the labels of the path's states, not the edges between them).
RECURSIVE VertexSeqs(_, _)
VertexSeqs(g, len) ==
    IF len = 0 THEN {<<>>}
    ELSE LET shorter == VertexSeqs(g, len - 1)
         IN shorter \cup UNION {{Append(w, v) : v \in Vertices(g)} :
                                   w \in {x \in shorter : Len(x) = len - 1}}

\* subgoals = agent.find_subgoals(p); ok = FALSE models the failed assertion
\* "Cannot find subgoals along an empty path".
FindSubgoals(p) ==
    /\ regions # NoRegions
    /\ api_call' = [NoCall EXCEPT
                       !.op = "find_subgoals", !.path = p, !.ok = (Len(p) >= 1),
                       !.subgoals = IF Len(p) >= 1
                                    THEN find_subgoals(regions.labels, p)
                                    ELSE <<>>]
    /\ UNCHANGED <<graph, partVars, agentVars, codecVars, astarVars, added_sum,
                   api_failures, derivedVars>>

NextSubgoals ==
    \/ regions = NoRegions /\ \E cg \in ConnectivityGraphs(graph) : BuildAgent(cg)
    \/ \E p \in VertexSeqs(graph, MaxPathLen) : FindSubgoals(p)

SpecSubgoals == InitAgent /\ [][NextSubgoals]_vars

(* --------------------------- genetic encoding -------------------------- *)
\* Iteration over a vertex's adjacency set ("for j_idx in adjacent[i_idx]").
\* The order is the interpreter's; encode_agent and decode_agent iterate the
\* same unmodified set objects of the state-space graph, hence in the same
\* order.
set_iter(S) == SelectSeq(set_order, LAMBDA x : x \in S)

\* Orders in which the interpreter may visit the vertex indices 0..n-1 of a
\* set: ascending from some index on, wrapping around (ascending included).
SetOrders(n) == {[k \in 1..n |-> (k - 1 + first) % n] : first \in 0..(n - 1)}

\* The (i_idx, j_idx) pairs in the order of the two nested loops.
RECURSIVE possible_edges(_, _)
possible_edges(state_space, i_idx) ==
    IF i_idx >= state_space.size_V THEN <<>>
    ELSE LET nbrs == set_iter(state_space.adjacent[i_idx])
         IN [k \in 1..Len(nbrs) |-> <<i_idx, nbrs[k]>>]
                \o possible_edges(state_space, i_idx + 1)

share_edge_unpruned(rg, state_space, v_idx, u_idx) ==
    LET v_to_u == u_idx \in state_space.adjacent[v_idx]
        u_to_v == v_idx \in state_space.adjacent[u_idx]
    IN [value |-> v_to_u, ok |-> v_to_u = u_to_v]

\* share_edge reads the pruned graph stored in the ConnectedComponents.
share_edge(rg, state_space, v_idx, u_idx) ==
    LET v_to_u == u_idx \in rg.pruned.adjacent[v_idx]
        u_to_v == v_idx \in rg.pruned.adjacent[u_idx]
    IN [value |-> v_to_u, ok |-> v_to_u = u_to_v]

\* encode_agent: one bit per possible edge; ok = FALSE models a failed
\* assertion (of share_edge, or of the final edge count).
encode_agent(rg, state_space) ==
    LET edges == possible_edges(state_space, 0)
        shared == [k \in 1..Len(edges) |->
                      share_edge(rg, state_space, edges[k][1], edges[k][2])]
    IN [encoding |-> [k \in 1..Len(edges) |-> IF shared[k].value THEN 1 ELSE 0],
        ok |-> /\ \A k \in 1..Len(edges) : shared[k].ok
               /\ state_space.size_E = Len(edges)]

RECURSIVE add_encoded_edges(_, _, _, _)
add_encoded_edges(connectivity_graph, edges, bits, counter) ==
    IF counter > Len(edges) THEN connectivity_graph
    ELSE IF bits[counter] = 1
    THEN add_encoded_edges(
             add_edge(connectivity_graph, edges[counter][1], edges[counter][2]).g,
             edges, bits, counter + 1)
    ELSE add_encoded_edges(connectivity_graph, edges, bits, counter + 1)

decode_agent_no_edges(bits, state_space) ==
    LET connectivity_graph == UndirectedGraph(state_space.V, <<>>)
        rg == ConnectedComponents(connectivity_graph, state_space)
    IN [regions |-> rg,
        region_entrances |-> agent_entrances(rg, state_space),
        region_exits |-> agent_exits(rg, state_space),
        options |-> agent_options(rg, state_space)]

\* decode_agent: the agent built on the components of the encoded edges.
decode_agent(bits, state_space) ==
    LET connectivity_graph ==
            add_encoded_edges(UndirectedGraph(state_space.V, <<>>),
                              possible_edges(state_space, 0), bits, 1)
        rg == ConnectedComponents(connectivity_graph, state_space)
    IN [regions |-> rg,
        region_entrances |-> agent_entrances(rg, state_space),
        region_exits |-> agent_exits(rg, state_space),
        options |-> agent_options(rg, state_space)]

\* The graphs a decomposition of g is computed from: the vertices of g with
\* some of the edges of g (decompose: a spanning forest of g).
SubGraphs(g) ==
    {UndirectedGraph(g.V, SetToSeq(E)) :
        E \in SUBSET {p \in Pairs(g.size_V) : p[2] \in g.adjacent[p[1]]}}

AllGraphs == UNION {GraphsOn(n) : n \in 1..MaxV}

InitCodec ==
    /\ graph \in AllGraphs
    /\ IdlePartition
    /\ NoAgent
    /\ encoding = <<>>
    /\ decoded = NoDecoded
    /\ codec_pc = "none"
    /\ set_order \in SetOrders(graph.size_V)
    /\ edge_cost = <<>>
    /\ NoSearch
    /\ NoApi

\* components = decompose(n, graph, rng); agent = RegionBasedAgent(graph, components)
BuildDecomposedAgent(cg) ==
    /\ regions = NoRegions
    /\ \E rg \in {ConnectedComponents(cg, graph)} : RegionBasedAgent(rg)

\* encoding = encode_agent(agent)
EncodeAgent ==
    /\ regions # NoRegions
    /\ codec_pc = "none"
    /\ \E r \in {encode_agent(regions, graph)} :
          IF r.ok
          THEN encoding' = r.encoding /\ codec_pc' = "encoded"
          ELSE encoding' = <<>> /\ codec_pc' = "failed"
    /\ UNCHANGED <<graph, partVars, agentVars, astarVars, apiVars, decoded,
                   set_order>>

\* decoded_agent = decode_agent(encoding, graph)
DecodeAgent ==
    /\ codec_pc = "encoded"
    /\ \E agent \in {decode_agent(encoding, graph)} :
          /\ decoded' = agent
          /\ \E heap \in {allocate(SetToSeq(OptionRefs(agent.options, "decoded")),
                                    constrained_arrays, option_ref)} :
                /\ constrained_arrays' = heap.arrays
                /\ option_ref' = heap.refs
    /\ codec_pc' = "decoded"
    /\ UNCHANGED <<graph, partVars, astarVars, apiVars, encoding, set_order, regions,
                   region_entrances, region_exits, options, path, possibilities,
                   call_log, calls, agent_failure, active_seen, pi_o_count>>

NextCodec ==
    \/ \E cg \in SubGraphs(graph) : BuildDecomposedAgent(cg)
    \/ EncodeAgent
    \/ DecodeAgent

SpecCodec == InitCodec /\ [][NextCodec]_vars

(* ------------------------------ two agents ----------------------------- *)
\* An encoding that was not produced from the agent: a bit vector with one
\* bit per possible edge.
OtherEncoding(bits) ==
    /\ codec_pc = "none"
    /\ encoding' = bits
    /\ codec_pc' = "encoded"
    /\ UNCHANGED <<graph, partVars, agentVars, astarVars, apiVars, decoded,
                   set_order>>

\* decoded_agent.possible_actions(p)
DecodedPossibleActions(p) ==
    /\ codec_pc = "decoded"
    /\ calls < MaxCalls
    /\ calls' = calls + 1
    /\ path' = p
    /\ IF Len(p) < 1
       THEN /\ agent_failure' = "empty path"
            /\ UNCHANGED <<decoded, possibilities, call_log, constrained_arrays>>
       ELSE \E r \in {possible_actions(decoded.regions, graph,
                                       decoded.region_entrances, decoded.options, p)} :
               /\ decoded' = [decoded EXCEPT !.options = r.options]
               /\ constrained_arrays' =
                     mark_constrained(constrained_arrays, option_ref, "decoded", r.log, 1)
               /\ call_log' = r.log
               /\ IF r.ok
                  THEN /\ possibilities' = r.possibilities
                       /\ agent_failure' = "none"
                  ELSE /\ agent_failure' = "no unique subgoal option"
                       /\ UNCHANGED possibilities
    /\ api_call' = [NoCall EXCEPT !.op = "possible_actions", !.on = "decoded"]
    /\ UNCHANGED <<graph, partVars, astarVars, added_sum, api_failures,
                   derivedVars, regions, region_entrances, region_exits, options,
                   active_seen, pi_o_count, option_ref, encoding, codec_pc,
                   set_order>>

NextTwoAgents ==
    \/ \E cg \in SubGraphs(graph) : BuildDecomposedAgent(cg)
    \/ EncodeAgent
    \/ \E b \in {0, 1} : OtherEncoding([k \in 1..graph.size_E |-> b])
    \/ DecodeAgent
    \/ \E p \in PathsUpTo(graph, MaxPathLen) : PossibleActions(p)
    \/ \E p \in PathsUpTo(graph, MaxPathLen) : DecodedPossibleActions(p)

\* The two smallest state-space graphs of AgentGraphs: the chain on three
\* vertices and the complete graph with self-loops on two.
InitTwoAgents ==
    /\ InitAgent
    /\ \A g \in AgentGraphs : graph.size_E <= g.size_E

SpecTwoAgents == InitTwoAgents /\ [][NextTwoAgents]_vars

(* ------------------------------ Four Rooms ----------------------------- *)
size == 13

\* walls_rc[r, c], as filled in by FourRoomsEnv.__init__
walls_rc(r, c) ==
    \/ r = 0 \/ r = size - 1 \/ c = 0 \/ c = size - 1
    \/ c = 6 /\ (r < 3 \/ (4 <= r /\ r < 10) \/ r >= 11)
    \/ r = 6 /\ (c < 2 \/ (3 <= c /\ c < 7))
    \/ r = 7 /\ ((6 <= c /\ c < 9) \/ c >= 10)

xy_to_rc(location_xy) == <<size - 1 - location_xy[2], location_xy[1]>>

wall_collision(location_xy) ==
    LET location_rc == xy_to_rc(location_xy)
    IN walls_rc(location_rc[1], location_rc[2])

valid_xy(location_xy) ==
    LET in_bounds == \A k \in 1..2 :
                        1 <= location_xy[k] /\ location_xy[k] <= size - 2
        no_collision == ~wall_collision(location_xy)
    IN in_bounds /\ no_collision

\* _action_to_direction_xy: action index a is entry a + 1
action_to_direction_xy ==
    << <<1, 0>>, <<1, 1>>, <<0, 1>>, <<-1, 1>>, <<-1, 0>>, <<-1, -1>>,
       <<0, -1>>, <<1, -1>>, <<0, 0>> >>

transition(agent_xy, action_idx) ==
    LET movement_xy == action_to_direction_xy[action_idx + 1]
        new_agent_xy == <<agent_xy[1] + movement_xy[1], agent_xy[2] + movement_xy[2]>>
    IN IF valid_xy(new_agent_xy) THEN new_agent_xy ELSE agent_xy

\* All (x, y) with x and y in 1..size-2, x-major.
agent_xys ==
    [k \in 1..((size - 2) * (size - 2)) |->
        <<1 + ((k - 1) \div (size - 2)), 1 + ((k - 1) % (size - 2))>>]

valid_agent_xys == SelectSeq(agent_xys, valid_xy)

\* The inner loop of get_transition_graph: the edges of one vertex.
RECURSIVE add_vertex_transitions(_, _, _)
add_vertex_transitions(g, vertex_idx, action_idx) ==
    IF action_idx >= Len(action_to_direction_xy) THEN g
    ELSE LET agent_xy == g.V[vertex_idx + 1]
             new_agent_xy == transition(agent_xy, action_idx)
         IN IF agent_xy = new_agent_xy
            THEN add_vertex_transitions(g, vertex_idx, action_idx + 1)
            ELSE add_vertex_transitions(
                     add_edge(g, vertex_idx, IndexOf(g.V, new_agent_xy)).g,
                     vertex_idx, action_idx + 1)

\* The outer loop, over the vertices in order.
RECURSIVE add_transitions(_, _)
add_transitions(g, vertex_idx) ==
    IF vertex_idx >= g.size_V THEN g
    ELSE add_transitions(add_vertex_transitions(g, vertex_idx, 0),
                         vertex_idx + 1)

get_transition_graph ==
    add_transitions(UndirectedGraph(valid_agent_xys, <<>>), 0)

example_label(v_xy) ==
    LET x == v_xy[1]
        y == v_xy[2]
    IN IF x < 6 /\ y <= 6 THEN 0
       ELSE IF x >= 6 /\ y <= 5 THEN 1
       ELSE IF x <= 6 /\ y > 6 THEN 2
       ELSE IF x > 6 /\ y > 5 THEN 3
       ELSE -1

\* create_example_regions: a decomposition into 4 components whose labels are
\* overwritten by the example labels.  The stored pruned graph is the one of
\* a decomposition along the same regions; only its size_V is read.
create_example_regions(state_space) ==
    LET labels == [v_idx \in Vertices(state_space) |->
                      example_label(state_space.V[v_idx + 1])]
    IN [num_components |-> 4,
        labels |-> labels,
        pruned |-> reset_edges(labels, state_space)]

first_task == <<38, 48, 52, 60, 70, 81>>

second_task == <<49, 48, 52, 60>>

\* The task paths of test_example_possible_actions and their contiguous parts.
Slices(p) == {SubSeq(p, a, b) : a \in 1..Len(p), b \in 1..Len(p)} \ {<<>>}

FourRoomsPaths == Slices(first_task) \cup Slices(second_task)

InitFourRooms ==
    /\ graph = get_transition_graph
    /\ IdlePartition
    /\ NoAgent
    /\ NoCodec
    /\ edge_cost = <<>>
    /\ NoSearch
    /\ NoApi

\* state_space, example_regions = create_example_regions(env);
\* agent = RegionBasedAgent(state_space, example_regions)
BuildExampleAgent ==
    /\ regions = NoRegions
    /\ \E rg \in {create_example_regions(graph)} : RegionBasedAgent(rg)

NextFourRooms ==
    \/ BuildExampleAgent
    \/ calls < MaxCalls /\ \E p \in FourRoomsPaths : PossibleActions(p)

SpecFourRooms == InitFourRooms /\ [][NextFourRooms]_vars

(* ------------------------------- A* search ----------------------------- *)
\* Node(state, prev, a_cost, h): prev is <<>> (None) or <<parent node>>.
Node(state, prev, a_cost, h) ==
    LET prev_g == IF prev # <<>> THEN prev[1].g ELSE 0
    IN [state |-> state, prev |-> prev, g |-> prev_g + a_cost,
        f |-> prev_g + a_cost + h]

RECURSIVE backtrack_states(_)
backtrack_states(curr_node) ==
    IF curr_node.prev = <<>> THEN <<curr_node.state>>
    ELSE Append(backtrack_states(curr_node.prev[1]), curr_node.state)

backtrack_without_start(node) ==
    IF node.prev = <<>> THEN <<node.state>> ELSE Tail(backtrack_states(node))

\* backtrack: the states along the prev pointers, from the first node on.
backtrack(node) == backtrack_states(node)

\* open_list.sort(key=lambda node: node.f): a stable sort (the first node of
\* least f, then the others sorted).
RECURSIVE sort_by_f(_)
sort_by_f(nodes) ==
    IF nodes = <<>> THEN <<>>
    ELSE LET least == Min({nodes[k].f : k \in 1..Len(nodes)})
             at == Min({k \in 1..Len(nodes) : nodes[k].f = least})
         IN CHOOSE result \in
                {<<nodes[at]>> \o sort_by_f(others) :
                    others \in {SubSeq(nodes, 1, at - 1)
                                    \o SubSeq(nodes, at + 1, Len(nodes))}} : TRUE

push_open_list_append(open, n) == Append(open, n)

push_open_list(open, n) ==
    LET same == {o_idx \in 1..Len(open) : open[o_idx].state = n.state}
    IN IF same = {} THEN Append(open, n)
       ELSE LET o_idx == Min(same)
            IN IF n.f < open[o_idx].f
               THEN Append(SubSeq(open, 1, o_idx - 1)
                               \o SubSeq(open, o_idx + 1, Len(open)), n)
               ELSE open

state_closed(closed, state) == \E k \in 1..Len(closed) : closed[k].state = state

cost(costs, s1, s2) == costs[<<Min({s1, s2}), IF s1 < s2 THEN s2 ELSE s1>>]

\* unclosed_neighbors: neighbors lists the adjacency set of node.state in the
\* order in which the set is iterated.
unclosed_neighbors(g, costs, h, closed, node, neighbors) ==
    LET unclosed == SelectSeq(neighbors, LAMBDA n_v : ~state_closed(closed, n_v))
    IN [k \in 1..Len(unclosed) |->
           Node(unclosed[k], <<node>>, cost(costs, node.state, unclosed[k]),
                h[unclosed[k]])]

RECURSIVE push_all(_, _, _)
push_all(open, nodes, k) ==
    IF k > Len(nodes) THEN open
    ELSE CHOOSE result \in
             {push_all(pushed, nodes, k + 1) :
                 pushed \in {push_open_list(open, nodes[k])}} : TRUE

reset_keep_closed(closed, s, gs, h) ==
    [open_list |-> <<Node(s, <<>>, 0, h[s])>>, closed_list |-> closed, goals |-> gs]

\* reset: the open list begins as [s0], the closed list is cleared.
reset(closed, s, gs, h) ==
    [open_list |-> <<Node(s, <<>>, 0, h[s])>>, closed_list |-> <<>>, goals |-> gs]

\* The orders in which a set can be iterated.
Orders(S) ==
    {o \in [1..Cardinality(S) -> S] : \A a, b \in 1..Cardinality(S) : o[a] = o[b] => a = b}

MaxCost == 2
MaxH == 2

\* Transition graphs of the planner: four states, any of the edges below.
PlannerEdges == {<<0, 1>>, <<0, 2>>, <<1, 2>>, <<2, 3>>}

PlannerGraphs ==
    {UndirectedGraph(<<0, 1, 2, 3>>, SetToSeq(E)) : E \in SUBSET PlannerEdges}

EdgesOf(g) == {p \in Pairs(g.size_V) : p[1] # p[2] /\ p[2] \in g.adjacent[p[1]]}

\* Cost of the cheapest path to a goal, by rounds of relaxation over the
\* vertices: entry v + 1 is {cost} from vertex v, or {} when no goal can be
\* reached from v.
relaxed(g, costs, d, v) ==
    LET via == UNION {{c + cost(costs, v, n) : c \in d[n + 1]} :
                         n \in g.adjacent[v]} \cup d[v + 1]
    IN IF via = {} THEN {} ELSE {Min(via)}

RECURSIVE relax_round(_, _, _, _)
relax_round(g, costs, d, v) ==
    IF v >= g.size_V THEN <<>>
    ELSE <<relaxed(g, costs, d, v)>> \o relax_round(g, costs, d, v + 1)

RECURSIVE relax(_, _, _, _)
relax(g, costs, d, rounds) ==
    IF rounds = 0 THEN d
    ELSE relax(g, costs, relax_round(g, costs, d, 0), rounds - 1)

RECURSIVE goal_costs(_, _, _)
goal_costs(g, gs, v) ==
    IF v >= g.size_V THEN <<>>
    ELSE <<IF v \in gs THEN {0} ELSE {}>> \o goal_costs(g, gs, v + 1)

cost_to_go(g, costs, gs) == relax(g, costs, goal_costs(g, gs, 0), g.size_V)

\* The optimistic heuristics: h never exceeds the cost of the cheapest path
\* to a goal.
Heuristics(g, costs, gs) ==
    LET d == cost_to_go(g, costs, gs)
    IN {h \in [Vertices(g) -> 0..MaxH] :
           \A v \in Vertices(g) : \A c \in d[v + 1] : h[v] <= c}

InitAStar ==
    /\ graph \in PlannerGraphs
    /\ edge_cost \in [EdgesOf(graph) -> 0..MaxCost]
    /\ IdlePartition
    /\ NoAgent
    /\ NoCodec
    /\ NoSearch
    /\ NoApi

\* a_star(s, gs) up to the while loop: reset(s, gs).
AStarCall(s, gs, h) ==
    /\ astar_pc \in {"idle", "returned"}
    /\ \E r \in {reset(closed_list, s, gs, h)} :
          /\ open_list' = r.open_list
          /\ closed_list' = r.closed_list
          /\ goals' = r.goals
    /\ s0' = s
    /\ h_table' = h
    /\ a_path' = <<>>
    /\ astar_pc' = "search"
    /\ UNCHANGED <<graph, partVars, agentVars, codecVars, apiVars, edge_cost>>

\* One iteration of the while loop; neighbors is the adjacency set of the
\* popped state in the order in which it is iterated.
AStarStep ==
    /\ astar_pc = "search"
    /\ open_list # <<>>
    /\ \E sorted_open \in {sort_by_f(open_list)} :
          \E curr \in {sorted_open[1]} : \E rest \in {Tail(sorted_open)} :
             IF curr.state \in goals
             THEN /\ a_path' = backtrack(curr)
                  /\ astar_pc' = "returned"
                  /\ open_list' = rest
                  /\ UNCHANGED closed_list
             ELSE /\ closed_list' = Append(closed_list, curr)
                  /\ \E neighbors \in Orders(graph.adjacent[curr.state]) :
                        \E nodes \in {unclosed_neighbors(graph, edge_cost, h_table,
                                          Append(closed_list, curr), curr,
                                          neighbors)} :
                            open_list' = push_all(rest, nodes, 1)
                  /\ UNCHANGED <<a_path, astar_pc>>
    /\ UNCHANGED <<graph, partVars, agentVars, codecVars, apiVars, edge_cost, h_table, s0,
                   goals>>

\* The while loop ends with an empty open list: return [].
AStarFail ==
    /\ astar_pc = "search"
    /\ open_list = <<>>
    /\ a_path' = <<>>
    /\ astar_pc' = "returned"
    /\ UNCHANGED <<graph, partVars, agentVars, codecVars, apiVars, edge_cost, h_table, s0,
                   goals, open_list, closed_list>>

\* solve_task: a_star(s0, {g}) on a new planner, or the next task (same goal)
\* on a used planner.
NextAStar ==
    \/ astar_pc = "idle" /\
          \E g_v \in Vertices(graph) :
              \E h \in Heuristics(graph, edge_cost, {g_v}) :
                  \E s \in Vertices(graph) : AStarCall(s, {g_v}, h)
    \/ astar_pc = "returned" /\
          \E s \in Vertices(graph) : AStarCall(s, goals, h_table)
    \/ AStarStep
    \/ AStarFail

SpecAStar == InitAStar /\ [][NextAStar]_vars

\* The planners whose edges all cost the same.
InitAStarUniform ==
    /\ InitAStar
    /\ \A e1, e2 \in DOMAIN edge_cost : edge_cost[e1] = edge_cost[e2]

\* a_star runs its loop to the end once called.
SpecAStarFair ==
    /\ InitAStarUniform
    /\ [][NextAStar]_vars
    /\ WF_vars(AStarStep)
    /\ WF_vars(AStarFail)

(* ------------------------- UndirectedGraph calls ------------------------ *)
MaxEdgeList == 2
MaxFailures == 2
MaxGraphV == 2

\* add_vertex: V.append(data), adjacent.append(set()), size_V += 1.
add_vertex(g, data) ==
    [V |-> Append(g.V, data),
     adjacent |-> [v \in 0..g.size_V |->
                      IF v < g.size_V THEN g.adjacent[v] ELSE {}],
     size_V |-> g.size_V + 1,
     size_E |-> g.size_E]

\* The while loop of is_connected: unexplored is a stack (top = last element).
RECURSIVE is_connected_search(_, _, _)
is_connected_search(g, marked, unexplored) ==
    IF unexplored = <<>> THEN marked
    ELSE LET u == unexplored[Len(unexplored)]
             rest == SubSeq(unexplored, 1, Len(unexplored) - 1)
         IN IF u \notin marked
            THEN is_connected_search(g, marked \cup {u},
                                     rest \o sorted(g.adjacent[u]))
            ELSE is_connected_search(g, marked, rest)

is_connected_any(g) ==
    IF g.size_V = 0 THEN [value |-> FALSE, ok |-> FALSE]
    ELSE [value |-> is_connected_search(g, {}, <<0>>) # {}, ok |-> TRUE]

\* is_connected: np.all(marked); ok = FALSE is the IndexError of marked[0] on
\* a graph without vertices.
is_connected(g) ==
    IF g.size_V = 0 THEN [value |-> FALSE, ok |-> FALSE]
    ELSE [value |-> is_connected_search(g, {}, <<0>>) = Vertices(g),
          ok |-> TRUE]

\* Edge lists given to the constructor: repeats, reversed duplicates and
\* self-loops included.
RECURSIVE EdgeLists(_, _)
EdgeLists(n, len) ==
    IF len = 0 THEN {<<>>}
    ELSE LET shorter == EdgeLists(n, len - 1)
         IN shorter \cup
               {Append(l, e) : l \in {x \in shorter : Len(x) = len - 1},
                               e \in (0..(n - 1)) \X (0..(n - 1))}

ConstructedGraphs ==
    UNION {{UndirectedGraph([k \in 1..n |-> k - 1], edges) :
               edges \in EdgeLists(n, MaxEdgeList)} : n \in 0..MaxGraphV}

InitGraph ==
    /\ graph \in ConstructedGraphs
    /\ IdlePartition
    /\ NoAgent
    /\ encoding = <<>>
    /\ decoded = NoDecoded
    /\ codec_pc = "none"
    /\ set_order = <<>>
    /\ edge_cost = <<>>
    /\ NoSearch
    /\ api_call = [NoCall EXCEPT !.op = "init"]
    /\ added_sum = IF graph.size_E = 0 THEN 0 ELSE -1
    /\ api_failures = 0
    /\ NoDerived

\* A call may be made while the graph is not yet held by a ConnectedComponents
\* and fewer than MaxFailures calls have raised.
CanCall ==
    /\ regions = NoRegions
    /\ api_failures < MaxFailures

Failures(ok) == IF ok THEN api_failures ELSE api_failures + 1

AddVertex ==
    /\ CanCall
    /\ graph.size_V < MaxGraphV
    /\ graph' = add_vertex(graph, graph.size_V)
    /\ api_call' = [NoCall EXCEPT !.op = "add_vertex"]
    /\ UNCHANGED <<partVars, agentVars, codecVars, astarVars, derivedVars, added_sum,
                   api_failures>>

AddEdge(i, j) ==
    /\ CanCall
    /\ \E r \in {add_edge(graph, i, j)} :
          /\ graph' = r.g
          /\ api_call' = [NoCall EXCEPT !.op = "add_edge", !.i = i, !.j = j,
                                        !.ret = r.added, !.ok = r.ok]
          /\ added_sum' = IF added_sum = -1 THEN -1 ELSE added_sum + r.added
          /\ api_failures' = Failures(r.ok)
    /\ UNCHANGED <<partVars, agentVars, codecVars, astarVars, derivedVars>>

RemoveEdge(i, j) ==
    /\ CanCall
    /\ \E r \in {remove_edge(graph, i, j)} :
          /\ graph' = r.g
          /\ api_call' = [NoCall EXCEPT !.op = "remove_edge", !.i = i, !.j = j,
                                        !.ok = r.ok]
          /\ api_failures' = Failures(r.ok)
    /\ added_sum' = -1
    /\ UNCHANGED <<partVars, agentVars, codecVars, astarVars, derivedVars>>

\* get_edge_from_idx(edge_idx); the assertion at the end of the scan fails
\* when no adjacency entry has the index.
GetEdgeFromIdx(edge_idx) ==
    /\ CanCall
    /\ \E e \in {get_edge_from_idx(graph, edge_idx)} :
          /\ api_call' = [NoCall EXCEPT !.op = "get_edge_from_idx",
                                        !.i = edge_idx, !.edge = e,
                                        !.ok = (e # <<-1, -1>>)]
          /\ api_failures' = Failures(e # <<-1, -1>>)
    /\ UNCHANGED <<graph, partVars, agentVars, codecVars, astarVars, derivedVars, added_sum>>

\* sample_edge: edge_idx = rng.integers(size_E), then get_edge_from_idx.
SampleEdge ==
    /\ CanCall
    /\ graph.size_E > 0
    /\ \E edge_idx \in 0..(graph.size_E - 1) :
          \E e \in {get_edge_from_idx(graph, edge_idx)} :
             /\ api_call' = [NoCall EXCEPT !.op = "sample_edge", !.i = edge_idx,
                                           !.edge = e, !.ok = (e # <<-1, -1>>)]
             /\ api_failures' = Failures(e # <<-1, -1>>)
    /\ UNCHANGED <<graph, partVars, agentVars, codecVars, astarVars, derivedVars, added_sum>>

IsConnected ==
    /\ CanCall
    /\ \E r \in {is_connected(graph)} :
          /\ api_call' = [NoCall EXCEPT !.op = "is_connected",
                                        !.value = r.value, !.ok = r.ok]
          /\ api_failures' = Failures(r.ok)
    /\ UNCHANGED <<graph, partVars, agentVars, codecVars, astarVars, derivedVars, added_sum>>

\* ConnectedComponents(cg, graph): find_components of cg, then
\* reset_edges(graph).
BuildComponents(cg) ==
    /\ CanCall
    /\ graph.size_V >= 1
    /\ regions' = ConnectedComponents(cg, graph)
    /\ api_call' = [NoCall EXCEPT !.op = "ConnectedComponents"]
    /\ UNCHANGED <<graph, partVars, codecVars, astarVars, derivedVars, added_sum, api_failures,
                   region_entrances, region_exits, options, path, possibilities,
                   call_log, calls, agent_failure, active_seen, pi_o_count,
                   constrained_arrays, option_ref>>

NextGraph ==
    \/ AddVertex
    \/ \E i, j \in -1..graph.size_V : AddEdge(i, j)
    \/ \E i, j \in -1..graph.size_V : RemoveEdge(i, j)
    \/ \E edge_idx \in -1..graph.size_E : GetEdgeFromIdx(edge_idx)
    \/ SampleEdge
    \/ IsConnected
    \/ \E cg \in SubGraphs(graph) : BuildComponents(cg)

SpecGraph == InitGraph /\ [][NextGraph]_vars

(* ----------------------------- derived graphs -------------------------- *)
\* The trees uniform_spanning_tree can return for g: UndirectedGraph(g.V, [])
\* with the retraced walk edges added, |V| - 1 edges of g that connect every
\* vertex.
SpanningTrees(g) ==
    {t \in SubGraphs(g) :
        /\ \A v \in Vertices(t) : v \notin t.adjacent[v]
        /\ t.size_E = 2 * (t.size_V - 1)
        /\ is_connected(t).value}

InitDerived ==
    /\ graph \in ConstructedGraphs
    /\ graph.size_V >= 1
    /\ IdlePartition
    /\ NoAgent
    /\ encoding = <<>>
    /\ decoded = NoDecoded
    /\ codec_pc = "none"
    /\ set_order = <<>>
    /\ edge_cost = <<>>
    /\ NoSearch
    /\ api_call = [NoCall EXCEPT !.op = "init"]
    /\ added_sum = -1
    /\ api_failures = 0
    /\ NoDerived

\* tree = UndirectedGraph(graph.V, []): the tree's V is the list object that
\* is the V of graph; its adjacency sets are new.
DeriveTree ==
    /\ derived_kind = "none"
    /\ \E t \in SpanningTrees(graph) : derived' = t
    /\ derived_kind' = "tree"
    /\ shares_V' = TRUE
    /\ api_call' = [NoCall EXCEPT !.op = "uniform_spanning_tree"]
    /\ UNCHANGED <<graph, partVars, agentVars, codecVars, astarVars, added_sum,
                   api_failures>>

\* connectivity_graph = UndirectedGraph(state_space.V, []) of decode_agent,
\* with the encoded edges added: it shares the V of state_space as well.
DeriveConnectivityGraph ==
    /\ derived_kind = "none"
    /\ \E cg \in SubGraphs(graph) : derived' = cg
    /\ derived_kind' = "connectivity_graph"
    /\ shares_V' = TRUE
    /\ api_call' = [NoCall EXCEPT !.op = "decode_agent"]
    /\ UNCHANGED <<graph, partVars, agentVars, codecVars, astarVars, added_sum,
                   api_failures>>

\* self._graph = deepcopy(graph) of reset_edges: no object is shared.
DerivePruned ==
    /\ derived_kind = "none"
    /\ \E cg \in SubGraphs(graph) :
          derived' = ConnectedComponents(cg, graph).pruned
    /\ derived_kind' = "_graph"
    /\ shares_V' = FALSE
    /\ api_call' = [NoCall EXCEPT !.op = "reset_edges"]
    /\ UNCHANGED <<graph, partVars, agentVars, codecVars, astarVars, added_sum,
                   api_failures>>

CanCallDerived ==
    /\ derived_kind # "none"
    /\ api_failures < MaxFailures

\* The V of the other graph after self.V.append(data) on one of them.
other_V(g, data) == IF shares_V THEN [g EXCEPT !.V = Append(@, data)] ELSE g

GraphAddVertex ==
    /\ CanCallDerived
    /\ graph.size_V < MaxGraphV
    /\ graph' = add_vertex(graph, Len(graph.V))
    /\ derived' = other_V(derived, Len(graph.V))
    /\ api_call' = [NoCall EXCEPT !.op = "add_vertex", !.on = "graph"]
    /\ UNCHANGED <<partVars, agentVars, codecVars, astarVars, added_sum,
                   api_failures, derived_kind, shares_V>>

DerivedAddVertex ==
    /\ CanCallDerived
    /\ derived.size_V < MaxGraphV
    /\ derived' = add_vertex(derived, Len(derived.V))
    /\ graph' = other_V(graph, Len(derived.V))
    /\ api_call' = [NoCall EXCEPT !.op = "add_vertex", !.on = "derived"]
    /\ UNCHANGED <<partVars, agentVars, codecVars, astarVars, added_sum,
                   api_failures, derived_kind, shares_V>>

GraphAddEdge(i, j) ==
    /\ CanCallDerived
    /\ \E r \in {add_edge(graph, i, j)} :
          /\ graph' = r.g
          /\ api_call' = [NoCall EXCEPT !.op = "add_edge", !.on = "graph",
                                        !.i = i, !.j = j, !.ret = r.added,
                                        !.ok = r.ok]
          /\ api_failures' = Failures(r.ok)
    /\ UNCHANGED <<partVars, agentVars, codecVars, astarVars, added_sum,
                   derivedVars>>

DerivedAddEdge(i, j) ==
    /\ CanCallDerived
    /\ \E r \in {add_edge(derived, i, j)} :
          /\ derived' = r.g
          /\ api_call' = [NoCall EXCEPT !.op = "add_edge", !.on = "derived",
                                        !.i = i, !.j = j, !.ret = r.added,
                                        !.ok = r.ok]
          /\ api_failures' = Failures(r.ok)
    /\ UNCHANGED <<graph, partVars, agentVars, codecVars, astarVars, added_sum,
                   derived_kind, shares_V>>

GraphRemoveEdge(i, j) ==
    /\ CanCallDerived
    /\ \E r \in {remove_edge(graph, i, j)} :
          /\ graph' = r.g
          /\ api_call' = [NoCall EXCEPT !.op = "remove_edge", !.on = "graph",
                                        !.i = i, !.j = j, !.ok = r.ok]
          /\ api_failures' = Failures(r.ok)
    /\ UNCHANGED <<partVars, agentVars, codecVars, astarVars, added_sum,
                   derivedVars>>

DerivedRemoveEdge(i, j) ==
    /\ CanCallDerived
    /\ \E r \in {remove_edge(derived, i, j)} :
          /\ derived' = r.g
          /\ api_call' = [NoCall EXCEPT !.op = "remove_edge", !.on = "derived",
                                        !.i = i, !.j = j, !.ok = r.ok]
          /\ api_failures' = Failures(r.ok)
    /\ UNCHANGED <<graph, partVars, agentVars, codecVars, astarVars, added_sum,
                   derived_kind, shares_V>>

NextDerived ==
    \/ DeriveTree
    \/ DeriveConnectivityGraph
    \/ DerivePruned
    \/ GraphAddVertex
    \/ DerivedAddVertex
    \/ \E i, j \in -1..graph.size_V : GraphAddEdge(i, j)
    \/ \E i, j \in -1..derived.size_V : DerivedAddEdge(i, j)
    \/ \E i, j \in -1..graph.size_V : GraphRemoveEdge(i, j)
    \/ \E i, j \in -1..derived.size_V : DerivedRemoveEdge(i, j)

SpecDerived == InitDerived /\ [][NextDerived]_vars

(* ------------------------- mutated bit vectors ------------------------- *)
MaxBits == 8

\* The solutions handed to fitness: any vector of n bits.
BitVectors(n) == [1..n -> {0, 1}]

\* State-space graphs with at most MaxBits adjacency entries.
InitBits == InitCodec /\ graph.size_E <= MaxBits

\* encode_agent(decoded_agent)
EncodeDecoded ==
    /\ codec_pc = "decoded"
    /\ codec_pc' = "reencoded"
    /\ \E r \in {encode_agent(decoded.regions, graph)} :
          api_call' = [NoCall EXCEPT !.op = "encode_agent", !.on = "decoded",
                                     !.encoding = r.encoding, !.ok = r.ok]
    /\ UNCHANGED <<graph, partVars, agentVars, astarVars, added_sum, api_failures,
                   derivedVars, encoding, decoded, set_order>>

NextBits ==
    \/ codec_pc = "none" /\ \E bits \in BitVectors(graph.size_E) : OtherEncoding(bits)
    \/ DecodeAgent
    \/ EncodeDecoded

SpecBits == InitBits /\ [][NextBits]_vars

(* ------------------------ ConnectedComponents calls -------------------- *)
\* get_component_subgraphs: one subgraph of the stored pruned graph per
\* component; ok = FALSE models the failed assertion "Neighbors should share
\* a component!".
get_component_subgraphs(rg) ==
    LET subs == [c \in 1..rg.num_components |->
                    component_subgraph(rg.pruned, rg.labels, c - 1)]
    IN [ok |-> \A c \in 1..rg.num_components : subs[c].ok,
        components |-> [c \in 1..rg.num_components |-> subs[c].g]]

\* State-space graphs: the graphs of AllGraphs and the graph without vertices.
InitComponents ==
    /\ graph \in AllGraphs \cup {NoGraph}
    /\ IdlePartition
    /\ NoAgent
    /\ NoCodec
    /\ edge_cost = <<>>
    /\ NoSearch
    /\ NoApi

\* num_components, labels = find_components(cg)
FindComponents(cg) ==
    /\ regions = NoRegions
    /\ \E found \in {find_components(cg)} :
          api_call' = [NoCall EXCEPT !.op = "find_components", !.graph = cg,
                                     !.ret = found.num, !.labels = found.labels,
                                     !.ok = found.ok]
    /\ UNCHANGED <<graph, partVars, agentVars, codecVars, astarVars, added_sum,
                   api_failures, derivedVars>>

\* regions = ConnectedComponents(cg, graph): find_components(cg), then
\* reset_edges(graph); nothing is constructed when find_components raises.
Construct(cg) ==
    /\ regions = NoRegions
    /\ \E found \in {find_components(cg)} :
          /\ regions' = IF found.ok THEN ConnectedComponents(cg, graph)
                        ELSE regions
          /\ api_call' = [NoCall EXCEPT !.op = "ConnectedComponents",
                                        !.graph = cg, !.ret = found.num,
                                        !.labels = found.labels, !.ok = found.ok]
    /\ UNCHANGED <<graph, partVars, codecVars, astarVars, added_sum, api_failures,
                   derivedVars, region_entrances, region_exits, options, path,
                   possibilities, call_log, calls, agent_failure, active_seen,
                   pi_o_count, constrained_arrays, option_ref>>

\* regions.reset_edges(graph)
ResetEdges ==
    /\ regions # NoRegions
    /\ regions' = [regions EXCEPT !.pruned = reset_edges(regions.labels, graph)]
    /\ api_call' = [NoCall EXCEPT !.op = "reset_edges", !.graph = graph]
    /\ UNCHANGED <<graph, partVars, codecVars, astarVars, added_sum, api_failures,
                   derivedVars, region_entrances, region_exits, options, path,
                   possibilities, call_log, calls, agent_failure, active_seen,
                   pi_o_count, constrained_arrays, option_ref>>

\* components = regions.get_component_subgraphs()
GetComponentSubgraphs ==
    /\ regions # NoRegions
    /\ \E r \in {get_component_subgraphs(regions)} :
          /\ components' = r.components
          /\ api_call' = [NoCall EXCEPT !.op = "get_component_subgraphs",
                                        !.ok = r.ok]
    /\ UNCHANGED <<graph, agentVars, codecVars, astarVars, added_sum, api_failures,
                   derivedVars, pc, failure, n_req, tree, in_tree, next_v,
                   remaining, walk_i, walk_u, cuts_left>>

\* sample_edge on the stored pruned graph.
PrunedSampleEdge ==
    /\ regions # NoRegions
    /\ regions.pruned.size_E > 0
    /\ \E edge_idx \in 0..(regions.pruned.size_E - 1) :
          \E e \in {get_edge_from_idx(regions.pruned, edge_idx)} :
             api_call' = [NoCall EXCEPT !.op = "sample_edge", !.on = "_graph",
                                        !.i = edge_idx, !.edge = e,
                                        !.ok = (e # <<-1, -1>>)]
    /\ UNCHANGED <<graph, partVars, agentVars, codecVars, astarVars, added_sum,
                   api_failures, derivedVars>>

NextComponents ==
    \/ regions = NoRegions /\ \E cg \in ConnectivityGraphs(graph) : FindComponents(cg)
    \/ regions = NoRegions /\ \E cg \in ConnectivityGraphs(graph) : Construct(cg)
    \/ ResetEdges
    \/ GetComponentSubgraphs
    \/ PrunedSampleEdge

SpecComponents == InitComponents /\ [][NextComponents]_vars

(* ---------------------- reachability (for properties) ------------------ *)
RECURSIVE ReachFrom(_, _)
ReachFrom(g, S) ==
    LET T == S \cup UNION {g.adjacent[v] : v \in S}
    IN IF T = S THEN S ELSE ReachFrom(g, T)

Connected(g) == g.size_V >= 1 /\ ReachFrom(g, {0}) = Vertices(g)

NumComponents(g) == Cardinality({ReachFrom(g, {v}) : v \in Vertices(g)})

RECURSIVE TotalLen(_, _)
TotalLen(gs, k) == IF k = 0 THEN 0 ELSE gs[k].size_V + TotalLen(gs, k - 1)

(* ------------------------------- C1 ------------------------------------ *)
\* C1: for a connected graph and 1 <= n <= |V|, decompose ends with exactly n
\* connected component subgraphs whose vertex lists cover every vertex of G
\* exactly once; no assertion of decompose, uniform_spanning_tree or
\* separate_components fails; and every sampled edge removal raises the
\* component count of the forest by exactly one.
C1_DoneState ==
    pc = "done" =>
        /\ Len(components) = n_req
        /\ \A c \in 1..Len(components) : Connected(components[c])
        /\ UNION {Range(components[c].V) : c \in 1..Len(components)} = Vertices(graph)
        /\ TotalLen(components, Len(components)) = graph.size_V

C1_NoFailure ==
    (1 <= n_req /\ n_req <= graph.size_V) => failure = "none"

C1_CutRaisesCount ==
    (pc = "cut" /\ cuts_left' = cuts_left - 1)
        => NumComponents(tree') = NumComponents(tree) + 1

C1_Decompose == [](C1_DoneState /\ C1_NoFailure) /\ [][C1_CutRaisesCount]_vars

C1_Witness ==
    /\ pc = "done"
    /\ graph.size_V = 3
    /\ n_req = 2
    /\ Len(components) = 2
    /\ graph.size_E > 4

(* ------------------------------- C2 ------------------------------------ *)
\* C2: when uniform_spanning_tree returns on a connected graph (self-loops
\* allowed), the tree has the vertices of G, size_E = 2 * (|V| - 1), is
\* connected and has only edges of G; its two assertions never fail.
UstReturned == pc = "cut" /\ cuts_left = n_req - 1

C2_SpanningTree ==
    /\ UstReturned =>
        /\ tree.size_V = graph.size_V
        /\ tree.size_E = 2 * (graph.size_V - 1)
        /\ Connected(tree)
        /\ \A i \in Vertices(tree) : \A j \in tree.adjacent[i] :
              j \in graph.adjacent[i] /\ i \in tree.adjacent[j]
    /\ failure \notin {"edges_added != 2", "not all in tree"}

C2_Witness ==
    /\ UstReturned
    /\ graph.size_V = 3
    /\ graph.size_E = 9
    /\ tree.size_E = 4

(* ------------------------------- C3 ------------------------------------ *)
OptionKeys(opts) ==
    [r_id \in DOMAIN opts |->
        {<<o.entrances, o.exits, o.subgoal>> : o \in opts[r_id]}]

\* C3: for an agent built from a decomposition of G, decoding its encoding
\* over G gives an agent with the same component label at every vertex and,
\* region by region, the same options (entrances, exits and subgoals).
C3_RoundTrip ==
    /\ codec_pc # "failed"
    /\ codec_pc = "decoded" =>
          /\ decoded.regions.num_components = regions.num_components
          /\ decoded.regions.labels = regions.labels
          /\ decoded.region_entrances = region_entrances
          /\ decoded.region_exits = region_exits
          /\ OptionKeys(decoded.options) = OptionKeys(options)

C3_Witness ==
    /\ codec_pc = "decoded"
    /\ graph.size_V = 3
    /\ regions.num_components = 2
    /\ \E k \in 1..Len(encoding) : encoding[k] = 1
    /\ \E k \in 1..Len(encoding) : encoding[k] = 0
    /\ \E r_id \in RegionIds(regions) : options[r_id] # {}

(* ------------------------------- C4 ------------------------------------ *)
RECURSIVE PathCost(_, _)
PathCost(p, k) ==
    IF k >= Len(p) THEN 0
    ELSE cost(edge_cost, p[k], p[k + 1]) + PathCost(p, k + 1)

GoalReachable == goals \cap ReachFrom(graph, {s0}) # {}

\* C4: with non-negative edge costs and an optimistic heuristic, whenever a
\* goal is reachable from s0 the path returned by a_star has the minimum cost
\* over all paths from s0 to a goal.
C4_Optimal ==
    (astar_pc = "returned" /\ GoalReachable) =>
        /\ a_path # <<>>
        /\ {PathCost(a_path, 1)} = cost_to_go(graph, edge_cost, goals)[s0 + 1]

(* ------------------------------- C5 ------------------------------------ *)
\* C5: a non-empty path returned by a_star starts at s0, ends at a goal state
\* and joins consecutive elements by edges of the transition graph; when s0 is
\* a goal the path is [s0].
C5_Path ==
    astar_pc = "returned" =>
        /\ a_path # <<>> =>
              /\ a_path[1] = s0
              /\ a_path[Len(a_path)] \in goals
              /\ \A k \in 1..(Len(a_path) - 1) :
                    a_path[k + 1] \in graph.adjacent[a_path[k]]
        /\ s0 \in goals => a_path = <<s0>>

C5_Witness ==
    /\ astar_pc = "returned"
    /\ Len(a_path) = 4
    /\ Len(closed_list) >= 3

(* ------------------------------- C6 ------------------------------------ *)
C6_EmptyIffUnreachable ==
    astar_pc = "returned" => (a_path = <<>> <=> ~GoalReachable)

C6_Returns == (astar_pc = "search") ~> (astar_pc = "returned")

ActiveSubgoal(labels, p, i) ==
    LET later == {f \in (i + 1)..Len(p) : labels[p[f]] # labels[p[i]]}
    IN IF later = {} THEN -1 ELSE p[Min(later)]

ActiveTriple(labels, p, i) == <<labels[p[i]], ActiveSubgoal(labels, p, i), p[i]>>

Degree(v) == Cardinality(graph.adjacent[v])

IsEntrance(labels, v) == \E n \in graph.adjacent[v] : labels[n] # labels[v]

TaskConstrained(labels, p, i) ==
    \/ i = 1
    \/ ActiveSubgoal(labels, p, i) = -1
    \/ ActiveSubgoal(labels, p, i) # ActiveSubgoal(labels, p, i - 1)

\* Not yet counted: the option (region, subgoal) was never active at p[i],
\* neither in an earlier call nor at an earlier index of this path.
OptionConstrained(labels, p, i, seen) ==
    /\ ActiveSubgoal(labels, p, i) # -1
    /\ ActiveTriple(labels, p, i) \notin seen
    /\ \A j \in 1..(i - 1) : ActiveTriple(labels, p, j) # ActiveTriple(labels, p, i)

C7_T(labels, opts, p, i) ==
    IF TaskConstrained(labels, p, i)
    THEN Degree(p[i]) +
            (IF i = 1 \/ IsEntrance(labels, p[i])
             THEN Cardinality(opts[labels[p[i]]]) ELSE 0)
    ELSE 1

C7_O(labels, p, i, seen) ==
    IF OptionConstrained(labels, p, i, seen) THEN Degree(p[i]) ELSE 1

\* C7: a possible_actions call on a path of length >= 1 returns an array of
\* length len(path) - 1 whose entry i is T_i * O_i, with T_i the task-level
\* factor (degree plus available options when constrained, else 1) and O_i the
\* option-level factor (degree when the active option was not yet counted at
\* the state, else 1); degrees are taken in the full state-space graph.
C7_Step ==
    (calls' = calls + 1 /\ Len(path') >= 1) =>
        /\ agent_failure' = "none"
        /\ Len(possibilities') = Len(path') - 1
        /\ \A i \in 1..(Len(path') - 1) :
              possibilities'[i] =
                  C7_T(regions.labels, options, path', i)
                      * C7_O(regions.labels, path', i, active_seen)

C7_PossibleActions == [][C7_Step]_vars

C7_Witness ==
    /\ calls = 2
    /\ agent_failure = "none"
    /\ Len(path) = 3
    /\ \E i \in 1..Len(possibilities) :
          /\ ~call_log[i].constrain_pi_t
          /\ ~call_log[i].constrain_pi_o
          /\ possibilities[i] = 1
    /\ \E i \in 1..Len(possibilities) :
          /\ call_log[i].constrain_pi_t
          /\ possibilities[i] > Degree(path[i])

(* ------------------------------- C8 ------------------------------------ *)
\* C8: on the Four Rooms state graph with the example regions, a freshly
\* built agent returns [24, 4, 2, 6, 4] from
\* possible_actions([38, 48, 52, 60, 70, 81]), and the next call on the same
\* agent, possible_actions([49, 48, 52, 60]), returns [15, 1, 1].
C8_Step ==
    /\ (calls = 0 /\ calls' = 1 /\ path' = first_task)
          => possibilities' = <<24, 4, 2, 6, 4>>
    /\ (calls = 1 /\ calls' = 2 /\ path = first_task /\ path' = second_task)
          => possibilities' = <<15, 1, 1>>

C8_Example == [][C8_Step]_vars

(* ------------------------------- C9 ------------------------------------ *)
Flag(opts, t) ==
    \E o \in opts[t[1]] : o.subgoal = t[2] /\ t[3] \in o.constrained

\* The option-level factor of every (option, state) pair has been multiplied
\* in at most once, and exactly once when the pair was ever active; the
\* option's flag for the state is set exactly in that case.
C9_Counted ==
    /\ active_seen \subseteq DOMAIN pi_o_count
    /\ \A t \in DOMAIN pi_o_count :
          /\ pi_o_count[t] <= 1
          /\ pi_o_count[t] = 1 <=> t \in active_seen
          /\ Flag(options, t) <=> t \in active_seen

\* A flag that is set stays set.
C9_FlagStep ==
    \A r \in DOMAIN options : \A o \in options[r] :
        \E o2 \in options'[r] :
            o2.subgoal = o.subgoal /\ o.constrained \subseteq o2.constrained

\* Within a call, the factor is multiplied in at index k exactly when k is the
\* first index, over all calls so far, at which the option is active at path[k].
C9_FirstIndex ==
    (calls' = calls + 1 /\ Len(path') >= 1) =>
        \A k \in 1..(Len(path') - 1) :
            call_log'[k].constrain_pi_o
                <=> OptionConstrained(regions.labels, path', k, active_seen)

\* C9: over any sequence of possible_actions calls on one agent, a constrained
\* flag only ever changes from false to true, and the option-level factor of
\* an (option, state) pair is multiplied in exactly once, at the first path
\* index across all calls where the option is active at the state.
C9_ConstrainedOnce == []C9_Counted /\ [][C9_FlagStep /\ C9_FirstIndex]_vars

C9_Witness ==
    /\ calls = 2
    /\ \E k \in 1..Len(call_log) :
          /\ call_log[k].subgoal # -1
          /\ ~call_log[k].constrain_pi_o
          /\ pi_o_count[<<call_log[k].region, call_log[k].subgoal,
                          call_log[k].state>>] = 1

(* ------------------------------- C10 ----------------------------------- *)
EntrancesIn(g, labels, r) ==
    {v \in Vertices(g) : labels[v] = r /\ \E n \in g.adjacent[v] : labels[n] # r}

ExitsIn(g, labels, r) ==
    {v \in Vertices(g) : labels[v] # r /\ \E n \in g.adjacent[v] : labels[n] = r}

\* C10: for every region r of a partition, the entrances are the vertices
\* labelled r with a neighbour, in the original unpruned graph, of another
\* label, and the exits are the vertices not labelled r with a neighbour, in
\* the original unpruned graph, labelled r.
C10_EntrancesExits ==
    regions # NoRegions =>
        \A r \in RegionIds(regions) :
            /\ region_entrances[r] = EntrancesIn(graph, regions.labels, r)
            /\ region_exits[r] = ExitsIn(graph, regions.labels, r)
            /\ \A o \in options[r] :
                  /\ o.entrances = EntrancesIn(graph, regions.labels, r)
                  /\ o.exits = ExitsIn(graph, regions.labels, r)

C10_Witness ==
    /\ regions # NoRegions
    /\ regions.pruned.adjacent # graph.adjacent
    /\ \E r \in RegionIds(regions) :
          /\ region_entrances[r] # {}
          /\ region_exits[r] # {}
          /\ region_entrances[r] # get_vertex_indices(regions, r)
          /\ EntrancesIn(regions.pruned, regions.labels, r) = {}

(* ------------------------------- C11 ----------------------------------- *)
\* The adjacency entries (i, j), j in adjacent[i], of a graph.
Entries(g) == {e \in Vertices(g) \X Vertices(g) : e[2] \in g.adjacent[e[1]]}

LexLess(a, b) == a[1] < b[1] \/ (a[1] = b[1] /\ a[2] < b[2])

\* e is the k-th entry (from 0) when the entries are listed by vertex in
\* ascending order and, for a vertex, by neighbour in ascending order.
KthEntry(g, k, e) ==
    /\ e \in Entries(g)
    /\ Cardinality({d \in Entries(g) : LexLess(d, e)}) = k

IndexedEntries(g) ==
    /\ \A k \in 0..(g.size_E - 1) : KthEntry(g, k, get_edge_from_idx(g, k))
    /\ {get_edge_from_idx(g, k) : k \in 0..(g.size_E - 1)} = Entries(g)
    /\ \A k1, k2 \in 0..(g.size_E - 1) :
          get_edge_from_idx(g, k1) = get_edge_from_idx(g, k2) => k1 = k2

SampledEntry ==
    api_call.op = "sample_edge" =>
        /\ api_call.ok
        /\ KthEntry(graph, api_call.i, api_call.edge)

SizeConsistent(g) == g.size_E = Cardinality(Entries(g))

AddEdgeStep ==
    LET i == api_call'.i
        j == api_call'.j
        present == j \in graph.adjacent[i] /\ i \in graph.adjacent[j]
    IN (api_call'.op = "add_edge" /\ api_call'.ok) =>
          /\ present => (api_call'.ret = 0 /\ graph' = graph)
          /\ ~present =>
                /\ graph'.adjacent =
                      [v \in Vertices(graph) |->
                          IF v = i /\ v = j THEN graph.adjacent[v] \cup {i}
                          ELSE IF v = i THEN graph.adjacent[v] \cup {j}
                          ELSE IF v = j THEN graph.adjacent[v] \cup {i}
                          ELSE graph.adjacent[v]]
                /\ api_call'.ret = (IF i = j THEN 1 ELSE 2)
                /\ graph'.V = graph.V
                /\ graph'.size_V = graph.size_V
          /\ graph'.size_E = graph.size_E + api_call'.ret

\* C12: add_edge on a present edge returns 0 and changes nothing; on an absent
\* edge it inserts both directions and returns 2, or 1 for a self-loop; size_E
\* grows by the returned number, so that after add_edge calls on a graph
\* constructed without edges size_E is the sum of the returned values.
C12_AddEdge ==
    /\ [](added_sum # -1 => graph.size_E = added_sum)
    /\ [][AddEdgeStep]_vars

C12_Witness ==
    /\ api_call.op = "add_edge"
    /\ api_call.ret = 0
    /\ api_call.ok
    /\ added_sum >= 3
    /\ \E v \in Vertices(graph) : v \in graph.adjacent[v]

(* ------------------------------- C13 ----------------------------------- *)
RemoveEdgeStep ==
    LET i == api_call'.i
        j == api_call'.j
        in_graph == i \in Vertices(graph) /\ j \in Vertices(graph)
        present == in_graph /\ j \in graph.adjacent[i] /\ i \in graph.adjacent[j]
    IN api_call'.op = "remove_edge" =>
          /\ present =>
                /\ api_call'.ok
                /\ graph'.adjacent =
                      [v \in Vertices(graph) |->
                          IF v = i /\ v = j THEN graph.adjacent[v] \ {i}
                          ELSE IF v = i THEN graph.adjacent[v] \ {j}
                          ELSE IF v = j THEN graph.adjacent[v] \ {i}
                          ELSE graph.adjacent[v]]
                /\ graph'.size_E = graph.size_E - (IF i = j THEN 1 ELSE 2)
          /\ ~present => (~api_call'.ok /\ graph' = graph)

\* C13: remove_edge on a present edge removes both directions and lowers
\* size_E by 2, or by 1 for a self-loop; on an absent edge or an index outside
\* [0, size_V) it fails and leaves the graph as it was.
C13_RemoveEdge == [][RemoveEdgeStep]_vars

(* ------------------------------- C14 ----------------------------------- *)
IsComplete(g) ==
    \A v, u \in Vertices(g) : v # u => u \in g.adjacent[v]

IsChain(g) ==
    \A v \in Vertices(g) : g.adjacent[v] = {v - 1, v + 1} \cap Vertices(g)

\* A tree with one edge removed: no self-loops, |V| - 2 undirected edges and
\* two components.
TreeMinusEdge(g) ==
    /\ g.size_V >= 2
    /\ \A v \in Vertices(g) : v \notin g.adjacent[v]
    /\ Cardinality(Entries(g)) = 2 * (g.size_V - 2)
    /\ NumComponents(g) = 2

AdjacencySymmetric(g) ==
    \A i, j \in Vertices(g) : j \in g.adjacent[i] <=> i \in g.adjacent[j]

\* C15: adjacency is symmetric in every reachable state: after construction
\* and any sequence of add_vertex, add_edge and remove_edge calls, failed
\* ones included, and in the pruned graph stored by reset_edges, j is in
\* adjacent[i] iff i is in adjacent[j]; the assertion of share_edge holds
\* for every pair of vertices.
C15_Symmetric ==
    /\ AdjacencySymmetric(graph)
    /\ regions # NoRegions =>
          /\ AdjacencySymmetric(regions.pruned)
          /\ \A v_idx, u_idx \in Vertices(graph) :
                share_edge(regions, graph, v_idx, u_idx).ok

C15_Witness ==
    /\ regions # NoRegions
    /\ api_failures >= 1
    /\ regions.pruned.adjacent # graph.adjacent
    /\ \E v \in Vertices(graph) : v \in regions.pruned.adjacent[v]
    /\ graph.size_E # sum_len(graph.adjacent, graph.size_V)

(* ------------------------------- C16 ----------------------------------- *)
\* C16: after construction from any edge list and after any sequence of
\* add_vertex, add_edge and remove_edge calls, size_E equals the sum over all
\* vertices of |adjacent[i]| and size_V equals the number of vertices.
C16_Sizes ==
    /\ graph.size_E = sum_len(graph.adjacent, graph.size_V)
    /\ graph.size_V = Len(graph.V)
    /\ DOMAIN graph.adjacent = Vertices(graph)

(* ------------------------------- C17 ----------------------------------- *)
\* A call on the derived graph leaves graph as it was, and a call on graph
\* leaves the derived graph as it was.
IndependentStep ==
    /\ api_call'.on = "derived" => graph' = graph
    /\ api_call'.on = "graph" => derived' = derived

\* C17: the graphs derived from G (the tree of uniform_spanning_tree, the
\* connectivity graph of decode_agent, the pruned graph of
\* ConnectedComponents) are independent copies: a later add_vertex, add_edge
\* or remove_edge on the derived graph leaves V, adjacent, size_V and size_E
\* of G unchanged, and a later mutation of G leaves the derived graph
\* unchanged.
C17_Independent == [][IndependentStep]_vars

(* ------------------------------- C18 ----------------------------------- *)
ConstrainedFlags(arrays, refs, key) == arrays[refs[key]]

\* <<region, subgoal, owner, state>> of the option active at an index of the
\* call just made, at the state processed there.
ActiveAt(log, owner) ==
    {<<log[k].region, log[k].subgoal, owner, log[k].state>> :
        k \in {i \in 1..Len(log) : log[i].subgoal # -1}}

\* The options of one agent, as values, show the flags of their arrays.
ViewsAgree(opts, owner) ==
    \A r_id \in DOMAIN opts : \A o \in opts[r_id] :
        /\ <<r_id, o.subgoal, owner>> \in DOMAIN option_ref
        /\ o.constrained =
              ConstrainedFlags(constrained_arrays, option_ref,
                               <<r_id, o.subgoal, owner>>)

OwnArrays ==
    /\ \A k1, k2 \in DOMAIN option_ref :
          k1 # k2 => option_ref[k1] # option_ref[k2]
    /\ ViewsAgree(options, "agent")
    /\ ViewsAgree(decoded.options, "decoded")

PossibleActionsFrame ==
    /\ \A key \in DOMAIN option_ref' \ DOMAIN option_ref :
          ConstrainedFlags(constrained_arrays', option_ref', key) = {}
    /\ \A key \in DOMAIN option_ref :
          /\ key \in DOMAIN option_ref'
          /\ option_ref'[key] = option_ref[key]
          /\ calls' = calls =>
                ConstrainedFlags(constrained_arrays', option_ref', key)
                    = ConstrainedFlags(constrained_arrays, option_ref, key)
          /\ calls' = calls + 1 =>
                \A st \in Vertices(graph) :
                    LET was == st \in ConstrainedFlags(constrained_arrays, option_ref, key)
                        is == st \in ConstrainedFlags(constrained_arrays', option_ref', key)
                    IN /\ was => is
                       /\ (is /\ ~was) =>
                             <<key[1], key[2], key[3], st>> \in
                                 ActiveAt(call_log', api_call'.on)

\* C18: a possible_actions call on one agent changes only the constrained
\* flag of the option active at the index being processed, at the state
\* being processed; the flags of the agent's other options and of every
\* option of the other agent are unchanged, every option having its own
\* array, all False when the option is constructed.
C18_OwnFlags == []OwnArrays /\ [][PossibleActionsFrame]_vars

C18_Witness ==
    /\ codec_pc = "decoded"
    /\ calls = MaxCalls
    /\ \E r_id \in DOMAIN options : \E o \in options[r_id] :
          /\ <<r_id, o.subgoal, "decoded">> \in DOMAIN option_ref
          /\ ConstrainedFlags(constrained_arrays, option_ref,
                              <<r_id, o.subgoal, "agent">>) # {}
          /\ ConstrainedFlags(constrained_arrays, option_ref,
                              <<r_id, o.subgoal, "decoded">>) = {}
    /\ \E key \in DOMAIN option_ref :
          /\ key[3] = "decoded"
          /\ ConstrainedFlags(constrained_arrays, option_ref, key) # {}

(* ------------------------------- C20 ----------------------------------- *)
\* C20: encode_agent returns one bit per adjacency entry of the state-space
\* graph (length size_E), in the order of get_edge_from_idx: bit k is 1 iff
\* the endpoints of get_edge_from_idx(k) share a region, and decode_agent
\* reads bit k as that same edge.
C20_CanonicalOrder ==
    codec_pc \in {"encoded", "decoded"} =>
        /\ Len(encoding) = graph.size_E
        /\ \A k \in 1..Len(encoding) :
              \E e \in {get_edge_from_idx(graph, k - 1)} :
                 /\ encoding[k] = 1 <=> regions.labels[e[1]] = regions.labels[e[2]]
                 /\ possible_edges(graph, 0)[k] = e

(* ------------------------------- C21 ----------------------------------- *)
\* The labels a find_components call returned, against the graph it was
\* given: every vertex labelled, labels exactly 0 .. N-1, equal labels iff
\* joined by a path, components numbered by their smallest vertex.
LabelsRight(g, num, labels) ==
    /\ DOMAIN labels = Vertices(g)
    /\ {labels[v] : v \in Vertices(g)} = 0..(num - 1)
    /\ \A v, u \in Vertices(g) :
          labels[v] = labels[u] <=> u \in ReachFrom(g, {v})
    /\ \A c, d \in 0..(num - 1) :
          c < d => Min({v \in Vertices(g) : labels[v] = c})
                     < Min({v \in Vertices(g) : labels[v] = d})
    /\ g.size_V >= 1 => labels[0] = 0

\* C21 as stated: on every finite graph find_components returns such
\* (N, labels).
C21_EveryGraph ==
    api_call.op = "find_components" =>
        /\ api_call.ok
        /\ LabelsRight(api_call.graph, api_call.ret, api_call.labels)

\* C21: on every graph with at least one vertex, find_components returns
\* (N, labels) such that every vertex has a label, the labels used are
\* exactly 0 .. N-1, two vertices have the same label iff a path joins them,
\* and components are numbered in ascending order of their smallest vertex
\* (vertex 0 has label 0); on the graph without vertices the assertion
\* "Last component should be non-empty!" fails.
C21_FindComponents ==
    api_call.op = "find_components" =>
        /\ api_call.ok <=> api_call.graph.size_V >= 1
        /\ api_call.ok =>
              LabelsRight(api_call.graph, api_call.ret, api_call.labels)

C21_Witness ==
    /\ api_call.op = "find_components"
    /\ api_call.ok
    /\ api_call.graph.size_V = MaxV
    /\ api_call.ret = 2
    /\ api_call.labels[1] = 1
    /\ api_call.labels[MaxV - 1] = 0

(* ------------------------------- C22 ----------------------------------- *)
\* The stored pruned graph against the state-space graph and the labels.
PrunedRight ==
    regions # NoRegions =>
        /\ regions.pruned.V = graph.V
        /\ regions.pruned.size_V = graph.size_V
        /\ DOMAIN regions.pruned.adjacent = Vertices(graph)
        /\ \A v \in Vertices(graph) :
              regions.pruned.adjacent[v] =
                  {n \in graph.adjacent[v] : regions.labels[n] = regions.labels[v]}

SubgraphsAssertionHolds ==
    api_call.op = "get_component_subgraphs" => api_call.ok

StateSpaceKept == graph' = graph

\* C22: after ConnectedComponents(graph, state_space) or reset_edges(state_space)
\* the stored pruned graph has the vertices of state_space and exactly those
\* adjacency entries of state_space whose endpoints have equal labels,
\* state_space itself is not modified, and the assertion "Neighbors should
\* share a component!" of get_component_subgraphs never fails.
C22_Pruned ==
    /\ [](PrunedRight /\ SubgraphsAssertionHolds)
    /\ [][StateSpaceKept]_vars

\* A construction whose pruned graph keeps a state-space edge that the
\* labelled graph does not have.
C22_Witness ==
    /\ api_call.op = "ConnectedComponents"
    /\ regions # NoRegions
    /\ \E v, u \in Vertices(graph) :
          /\ u \in regions.pruned.adjacent[v]
          /\ u # v
          /\ u \notin api_call.graph.adjacent[v]

(* ------------------------------- C30 ----------------------------------- *)
\* C30: the pruned graph stored by ConnectedComponents has size_E equal to
\* the sum over all vertices of |adjacent[i]| after reset_edges, for every
\* labelling and every state-space graph.
C30_PrunedSize ==
    regions # NoRegions =>
        regions.pruned.size_E = sum_len(regions.pruned.adjacent, regions.pruned.size_V)

\* sample_edge on the stored graph never runs into the final "assert False"
\* of get_edge_from_idx.
C30_SampleEdge ==
    (api_call.op = "sample_edge" /\ api_call.on = "_graph") => api_call.ok

(* ------------------------------- C23 ----------------------------------- *)
\* The subgoal the claim gives index i of path p: the state at the smallest
\* later index whose region label differs from that of p[i], else -1.
NextRegionState(labels, p, i) ==
    LET later == {j \in (i + 1)..Len(p) : labels[p[j]] # labels[p[i]]}
    IN IF later = {} THEN -1 ELSE p[Min(later)]

\* C23: for every non-empty path and every index i, find_subgoals(path)[i]
\* is path[j] for the smallest j > i whose region label differs from that of
\* path[i], and -1 when there is no such j; the last index has no subgoal,
\* and the subgoal changes between i-1 and i exactly when path[i-1] and
\* path[i] lie in different regions.
C23_Subgoals ==
    (api_call.op = "find_subgoals" /\ Len(api_call.path) >= 1) =>
        LET p == api_call.path
            subgoals == api_call.subgoals
        IN /\ api_call.ok
           /\ DOMAIN subgoals = 1..Len(p)
           /\ \A i \in 1..Len(p) :
                 subgoals[i] = NextRegionState(regions.labels, p, i)
           /\ subgoals[Len(p)] = -1
           /\ \A i \in 2..Len(p) :
                 subgoals[i - 1] # subgoals[i]
                     <=> regions.labels[p[i - 1]] # regions.labels[p[i]]

\* A path that stays in its first region until its last state, which lies in
\* another region.
C23_Witness ==
    /\ api_call.op = "find_subgoals"
    /\ Len(api_call.path) = MaxPathLen
    /\ api_call.subgoals[1] = api_call.path[MaxPathLen]
    /\ api_call.subgoals[1] # api_call.path[2]
    /\ api_call.subgoals[MaxPathLen] = -1

(* ------------------------------- C27 ----------------------------------- *)
\* C27: for every partition and every valid path, at every index with an
\* active subgoal the subgoal is an exit state of the region of the index's
\* state and that region has exactly one option with this subgoal; the
\* assertion "Expected exactly one matching subgoal option" of
\* possible_actions never fails.
C27_OneOption ==
    (calls >= 1 /\ Len(path) >= 1) =>
        /\ agent_failure = "none"
        /\ \A i \in 1..Len(path) :
              LET sg == NextRegionState(regions.labels, path, i)
                  r == regions.labels[path[i]]
              IN sg # -1 =>
                    /\ sg \in region_exits[r]
                    /\ Cardinality({o \in options[r] : o.subgoal = sg}) = 1

\* A call in which an option is active in a region that has other options.
C27_Witness ==
    /\ calls >= 1
    /\ agent_failure = "none"
    /\ \E i \in 1..Len(call_log) :
          /\ call_log[i].subgoal # -1
          /\ Cardinality(options[call_log[i].region]) >= 2

(* ------------------------------- C28 ----------------------------------- *)
RECURSIVE Product(_, _)
Product(xs, k) == IF k = 0 THEN 1 ELSE xs[k] * Product(xs, k - 1)

\* C28: for every partition and every valid path, whatever calls were made
\* before, possible_actions returns and every entry of the result is an
\* integer >= 1; hence the product of the entries is >= 1, its logarithm is
\* defined and not negative, and the evidence (minus the sum of the
\* logarithms) is never positive.
C28_AtLeastOne ==
    (calls >= 1 /\ Len(path) >= 1) =>
        /\ agent_failure = "none"
        /\ Len(possibilities) = Len(path) - 1
        /\ \A i \in 1..Len(possibilities) :
              possibilities[i] \in Nat /\ possibilities[i] >= 1
        /\ Product(possibilities, Len(possibilities)) >= 1

\* A later call whose result has an entry 1 (neither policy constrained), on
\* a partition in which the state of that entry is alone in its region.
C28_Witness ==
    /\ calls = MaxCalls
    /\ agent_failure = "none"
    /\ \E i \in 1..Len(possibilities) :
          /\ possibilities[i] = 1
          /\ get_vertex_indices(regions, regions.labels[path[i]]) = {path[i]}

\* The single-region partition: no options, every entry is a degree.
C28_WitnessOneRegion ==
    /\ calls >= 1
    /\ regions.num_components = 1
    /\ \A r \in RegionIds(regions) : options[r] = {}
    /\ Len(possibilities) >= 2

(* ------------------------------- C26 ----------------------------------- *)
\* The orderings of a list: the permutations of its indices.
Orderings(n) == {f \in [1..n -> 1..n] : \A a, b \in 1..n : f[a] = f[b] => a = b}

Reordered(bs, f) == [k \in 1..Len(bs) |-> bs[f[k]]]

\* log_model_evidence on the agent as it was built (no flag set).
FreshEvidence(bs) ==
    log_model_evidence(regions, graph, region_entrances,
                       agent_options(regions, graph), bs)

\* C26: for a freshly built agent and any list of valid paths, the total
\* accumulated by log_model_evidence (the product of all entries of all
\* possible_actions results) is the same for every ordering of the list.
C26_OrderIndependent ==
    api_call.op = "log_model_evidence" =>
        /\ api_call.ok
        /\ \A f \in Orderings(Len(api_call.behaviors)) :
              LET other == FreshEvidence(Reordered(api_call.behaviors, f))
              IN other.ok /\ other.product = api_call.ret

\* Two paths whose arrays depend on which of them was processed first.
C26_Witness ==
    /\ api_call.op = "log_model_evidence"
    /\ Len(api_call.behaviors) = MaxCalls
    /\ api_call.ret > 1
    /\ \E f \in Orderings(Len(api_call.behaviors)) :
          LET other == FreshEvidence(Reordered(api_call.behaviors, f))
          IN \E k \in 1..Len(api_call.behaviors) :
                other.results[k] # api_call.results[f[k]]

(* ------------------------------- C24 ----------------------------------- *)
StatesOf(nodes) == {nodes[k].state : k \in 1..Len(nodes)}

DistinctStates(nodes) ==
    \A a, b \in 1..Len(nodes) : nodes[a].state = nodes[b].state => a = b

\* At most one open node per state, no state both open and closed, no state
\* on the closed list twice.
OpenClosedDisjoint ==
    /\ DistinctStates(open_list)
    /\ DistinctStates(closed_list)
    /\ StatesOf(open_list) \cap StatesOf(closed_list) = {}

\* An expansion (the popped node curr goes to the closed list): an open node
\* o of another state stays, unless a node generated from curr has o's state
\* and a strictly lower f, which then takes its place.
KeepsLowerF ==
    (astar_pc = "search" /\ Len(closed_list') = Len(closed_list) + 1) =>
        LET curr == closed_list'[Len(closed_list')]
        IN \A k \in 1..Len(open_list) :
              LET o == open_list[k]
                  n == Node(o.state, <<curr>>,
                            cost(edge_cost, curr.state, o.state), h_table[o.state])
                  kept == {open_list'[j] : j \in {i \in 1..Len(open_list') :
                                                     open_list'[i].state = o.state}}
              IN o.state # curr.state =>
                    IF o.state \in graph.adjacent[curr.state] /\ n.f < o.f
                    THEN kept = {n}
                    ELSE kept = {o}

\* C24: in every state of an A* search the open list holds at most one node
\* per state, no state is on both the open and the closed list, no state is
\* put on the closed list more than once, and when a generated node has the
\* state of an open node the one with the strictly lower f is kept (the open
\* node on a tie).
C24_OpenList == []OpenClosedDisjoint /\ [][KeepsLowerF]_vars

\* An open node that took the place of a node of its state generated earlier:
\* its state is also a neighbour of a state closed before its parent.
C24_Witness ==
    /\ astar_pc = "search"
    /\ \E k \in 1..Len(open_list) : \E a, b \in 1..Len(closed_list) :
          /\ a < b
          /\ open_list[k].prev = <<closed_list[b]>>
          /\ open_list[k].state \in graph.adjacent[closed_list[a].state]

\* An open node that stayed although a node of its state and of equal f was
\* generated later.
C24_WitnessTie ==
    /\ astar_pc = "search"
    /\ \E k \in 1..Len(open_list) : \E a, b \in 1..Len(closed_list) :
          /\ a < b
          /\ open_list[k].prev = <<closed_list[a]>>
          /\ open_list[k].state \in graph.adjacent[closed_list[b].state]
          /\ open_list[k].g = closed_list[b].g
                 + cost(edge_cost, closed_list[b].state, open_list[k].state)

(* ------------------------------- C25 ----------------------------------- *)
AllInTree == \A v \in Vertices(graph) : in_tree[v]

UstRunning == pc \in {"perm", "walk", "retrace"}

\* uniform_spanning_tree, once called, returns.
C25_Returns == UstRunning ~> (pc = "cut" /\ failure = "none" /\ AllInTree)

\* The in-tree set only grows.
InTreeGrows ==
    UstRunning => \A v \in Vertices(graph) : in_tree[v] => in_tree'[v]

\* A retraced step adds one undirected edge (two adjacency entries) and one
\* vertex to the tree.
RetraceAddsOneEdge ==
    (pc = "retrace" /\ ~in_tree[walk_u]) =>
        /\ pc' = "retrace"
        /\ tree'.size_E = tree.size_E + 2
        /\ tree'.adjacent[walk_u] = tree.adjacent[walk_u] \cup {next_v[walk_u]}
        /\ walk_u \in tree'.adjacent[next_v[walk_u]]
        /\ next_v[walk_u] # walk_u
        /\ in_tree' = [in_tree EXCEPT ![walk_u] = TRUE]

\* The outer loop ends after the iteration that puts the last vertex in the
\* tree: a further vertex of the permutation is taken only while some vertex
\* is outside the tree, the first iteration excepted.
StopsWhenAllInTree ==
    /\ (pc = "retrace" /\ pc' # "retrace") => (pc' = "cut" <=> AllInTree)
    /\ (pc = "perm" /\ pc' = "walk" /\ AllInTree) => remaining = Vertices(graph)

\* C25: on every connected graph with at least one vertex, under fair random
\* neighbour choices, uniform_spanning_tree eventually returns; the set of
\* in-tree vertices only grows, each retraced step adds exactly one new
\* undirected edge (the assertion edges_added == 2 never fails, self-loops in
\* the input included), and the outer loop stops once all vertices are in
\* the tree.
C25_Terminates ==
    /\ C25_Returns
    /\ [](failure = "none")
    /\ [][InTreeGrows /\ RetraceAddsOneEdge /\ StopsWhenAllInTree]_vars

\* uniform_spanning_tree returned on a graph with self-loops.
C25_Witness ==
    /\ pc = "cut"
    /\ failure = "none"
    /\ graph.size_V = MaxV
    /\ 0 \in graph.adjacent[0]
    /\ AllInTree
    /\ tree.size_E = 2 * (MaxV - 1)

\* A walk that drew the self-loop of its vertex and is still at it.
C25_WitnessLoop ==
    /\ pc = "walk"
    /\ ~in_tree[walk_u]
    /\ next_v[walk_u] = walk_u

(* ------------------------------- C29 ----------------------------------- *)
\* encode_agent(decode_agent(bits, graph))
Repaired(bits) == encode_agent(decode_agent(bits, graph).regions, graph)

\* C29: for every bit vector b with one bit per adjacency entry of the
\* state-space graph, e = encode_agent(decode_agent(b, G)) is bitwise >= b,
\* has the same bit for both directions of every edge, and is a fixed point:
\* encode_agent(decode_agent(e, G)) = e.
C29_Repair ==
    (api_call.op = "encode_agent" /\ api_call.on = "decoded") =>
        LET b == encoding
            e == api_call.encoding
            edges == possible_edges(graph, 0)
        IN /\ api_call.ok
           /\ Len(b) = graph.size_E
           /\ Len(e) = graph.size_E
           /\ Len(edges) = graph.size_E
           /\ \A k \in 1..Len(e) : e[k] \in {0, 1} /\ e[k] >= b[k]
           /\ \A k, m \in 1..Len(e) :
                 edges[m] = <<edges[k][2], edges[k][1]>> => e[m] = e[k]
           /\ Repaired(e).ok
           /\ Repaired(e).encoding = e

\* A vector with a bit set for one direction of an edge only, and bits set
\* by the round trip that join vertices it had not joined directly; some
\* bit stays 0.
C29_Witness ==
    /\ api_call.op = "encode_agent"
    /\ api_call.on = "decoded"
    /\ \E k, m \in 1..Len(encoding) :
          LET edges == possible_edges(graph, 0)
          IN /\ edges[m] = <<edges[k][2], edges[k][1]>>
             /\ encoding[k] = 1
             /\ encoding[m] = 0
             /\ api_call.encoding[m] = 1
    /\ \E k \in 1..Len(encoding) : api_call.encoding[k] = 0

====
